---- MODULE Spec2Model ----
(***************************************************************************)
(* Webull realtime P&L monitor: the log tailer (WebullLogParser.           *)
(* extract_trades_from_logs), the execution normalizer (process_trade),    *)
(* the FIFO matcher (match_buy_sell_trades, create_trade_pair,             *)
(* calculate_clean_positions), the pricing strategies of WebullAnalytics   *)
(* and the scan cycle of WebullRealtimePnL.monitor_logs.                   *)
(*                                                                         *)
(* Units.  The program computes with Python floats; the model computes     *)
(* with exact integers:                                                    *)
(*   Quantity    hundredths of a share   (Shares(100) is 100 shares)       *)
(*   Price       whole dollars                                             *)
(*   money       cents (Quantity * Price; Commission, PnL, TotalCost)      *)
(*   Time        seconds since midnight of the trading day                 *)
(* Quotients (PnLPercent, DurationMinutes) are kept as <<num, den>>.       *)
(***************************************************************************)
EXTENDS Integers, Sequences, FiniteSets, TLC

\* ---------------------------------------------------------------- bounds
\* executions fed to the matcher in SpecMatch
MaxTrades == 3
\* line segments the writer gets to disk, all files together, in Spec
MaxSegments == 4
\* trade pairs in a list handed to calculate_advanced_metrics in SpecMetrics
MaxPairs == 3
\* threads start_monitoring gets to start in SpecThreads
MaxWorkers == 2

VARIABLES
    \* the log folder, owned by the writer process
    file_lines,          \* file -> sequence of indices into LogLines
    file_size,           \* file -> segments on disk (os.path.getsize)
    recently_modified,   \* file -> modified less than 0.5 s ago
    mtime_order,         \* the files, most recently modified first
    \* WebullLogParser
    processed_logs,
    processed_trade_ids,
    last_file_positions,
    position_warnings,
    open_positions,
    \* WebullRealtimePnL
    trades,
    trade_pairs,
    \* WebullConfig
    use_average_pricing,
    timeframe_minutes,
    \* history: what the last matching pass returned before any re-pricing,
    \* and which strategy was applied to it last
    fifo_pairs,
    strategy,
    \* WebullAnalytics: the metric fields; history: the list the last pass
    \* of calculate_advanced_metrics was given and the fields that were away
    \* from their defaults before it
    metrics,
    metrics_pairs,
    nonzero_before,
    \* WebullRealtimePnL: the flag, the Thread object, and the threads
    \* start_monitoring has started, each with its place in monitor_logs and
    \* its local new_trades
    running,
    monitor_thread,
    workers,
    \* the Tk thread: where it is in stop_monitoring or reset_data, and the
    \* local was_running of reset_data
    controller,
    was_running,
    \* WebullGUI.trades: its content, and whether it is the list object
    \* WebullRealtimePnL.trades refers to
    gui_trades,
    gui_trades_live,
    \* history: the last of start, stop and reset the user asked for, whether
    \* a state-clearing step ran while a thread was alive, what the GUI held
    \* after the last update_gui, and whether a whole cycle has run since
    \* the settings were changed
    last_call,
    cleared_while_alive,
    gui_trades_shown,
    settings_seen,
    \* history: what the last scan that kept a record did with each file
    scan_log

vars == <<file_lines, file_size, recently_modified, mtime_order, processed_logs,
          processed_trade_ids, last_file_positions, position_warnings,
          open_positions, trades, trade_pairs, use_average_pricing,
          timeframe_minutes, fifo_pairs, strategy, metrics, metrics_pairs,
          nonzero_before, running, monitor_thread, workers, controller,
          was_running, gui_trades, gui_trades_live, last_call,
          cleared_while_alive, gui_trades_shown, settings_seen, scan_log>>

fileVars == <<file_lines, file_size, recently_modified, mtime_order>>
tailerVars == <<processed_logs, processed_trade_ids, last_file_positions>>
configVars == <<use_average_pricing, timeframe_minutes>>
metricVars == <<metrics, metrics_pairs, nonzero_before>>
threadVars == <<running, monitor_thread, workers, controller, was_running,
                last_call, cleared_while_alive>>
guiVars == <<gui_trades, gui_trades_live, gui_trades_shown>>
sessionVars == <<threadVars, guiVars, settings_seen, scan_log>>

\* ------------------------------------------------------------- arithmetic
Shares(n) == n * 100
Dollars(n) == n * 100
Abs(x) == IF x < 0 THEN 0 - x ELSE x
Min(a, b) == IF a <= b THEN a ELSE b
Max(a, b) == IF a >= b THEN a ELSE b

RECURSIVE SeqSum(_)
SeqSum(s) == IF s = <<>> THEN 0 ELSE Head(s) + SeqSum(Tail(s))

\* str.upper() on the Side values the logs carry
Upper(side) ==
    CASE side = "buy" -> "BUY"
      [] side = "sell" -> "SELL"
      [] OTHER -> side

\* df['Symbol'].unique(): the symbols in order of first appearance
RECURSIVE unique(_)
unique(s) ==
    IF s = <<>> THEN <<>>
    ELSE LET front == unique(SubSeq(s, 1, Len(s) - 1))
             last == s[Len(s)]
         IN IF \E i \in DOMAIN front : front[i] = last
            THEN front ELSE Append(front, last)

\* ------------------------------------------------------------ FIFO matcher
\* faulty variant: the rows are left in any order
sort_values_any(all_trades) == Permutations(1..Len(all_trades))

\* sort_values('DateTimeObj') uses an unstable sort: executions with equal
\* timestamps may come out in any order.  An order is a permutation of the
\* positions of trades, ascending by Time.
sort_values(all_trades) ==
    LET n == Len(all_trades)
    IN { p \in Permutations(1..n) :
            \A i, j \in 1..n :
                i < j => all_trades[p[i]].Time <= all_trades[p[j]].Time }

\* one DataFrame row: the execution and its index label
Row(all_trades, k) ==
    [idx |-> k,
     Symbol |-> all_trades[k].Symbol,
     Side |-> all_trades[k].Side,
     Quantity |-> all_trades[k].Quantity,
     Price |-> all_trades[k].Price,
     Time |-> all_trades[k].Time,
     OrderID |-> all_trades[k].OrderID,
     Commission |-> all_trades[k].Commission]

\* symbol_trades[Side.str.upper() == side].sort_values('DateTimeObj')
side_rows(all_trades, ord, symbol, side) ==
    LET ks == SelectSeq(ord, LAMBDA k :
                  /\ all_trades[k].Symbol = symbol
                  /\ Upper(all_trades[k].Side) = side)
    IN [j \in 1..Len(ks) |-> Row(all_trades, ks[j])]

\* pnl_percent = (pnl / total_cost) * 100 if total_cost > 0 else 0
pnl_percent(pnl, total_cost) ==
    IF total_cost > 0 THEN <<pnl * 100, total_cost>> ELSE <<0, 1>>

create_trade_pair(buy, sell) ==
    LET buy_cost == buy.Quantity * buy.Price
        sell_proceeds == sell.Quantity * sell.Price
        buy_commission == buy.Commission
        sell_commission == sell.Commission
        total_cost == buy_cost + buy_commission
        total_proceeds == sell_proceeds - sell_commission
        pnl == total_proceeds - total_cost
    IN [Symbol |-> buy.Symbol,
        Quantity |-> buy.Quantity,
        BuyPrice |-> buy.Price,
        SellPrice |-> sell.Price,
        BuyTime |-> buy.Time,
        SellTime |-> sell.Time,
        BuyOrderID |-> buy.OrderID,
        SellOrderID |-> sell.OrderID,
        BuyCost |-> buy_cost,
        SellProceeds |-> sell_proceeds,
        BuyCommission |-> buy_commission,
        SellCommission |-> sell_commission,
        PnL |-> pnl,
        PnLPercent |-> pnl_percent(pnl, total_cost),
        TotalCost |-> total_cost,
        DurationMinutes |-> <<sell.Time - buy.Time, 60>>,
        Result |-> IF pnl > 0 THEN "Profit" ELSE "Loss"]

\* faulty variant: a sell at the buy's own timestamp counts as a later sell
valid_sells_not_strict(remaining_sells, current_buy) ==
    SelectSeq(remaining_sells, LAMBDA s : s.Time >= current_buy.Time)

\* remaining_sells[remaining_sells['DateTimeObj'] > current_buy['DateTimeObj']]
valid_sells_of(remaining_sells, current_buy) ==
    SelectSeq(remaining_sells, LAMBDA s : s.Time > current_buy.Time)

\* remaining_sells[remaining_sells.index != current_sell.name]
drop_sell(remaining_sells, current_sell) ==
    SelectSeq(remaining_sells, LAMBDA s : s.idx # current_sell.idx)

\* faulty variant: the matched part carries its share of the commission
matched_buy_prorated(current_buy, sell_qty) ==
    [current_buy EXCEPT
        !.Quantity = sell_qty,
        !.Commission = (@ * sell_qty) \div current_buy.Quantity]

\* faulty variant: the pair is built from the whole buy
matched_buy_whole(current_buy, sell_qty) == current_buy

\* matched_buy = current_buy.copy(); matched_buy['Quantity'] = sell_qty
matched_buy_of(current_buy, sell_qty) ==
    [current_buy EXCEPT !.Quantity = sell_qty]

\* faulty variant: the pair is built from the whole sell
matched_sell_whole(current_sell, buy_qty) == current_sell

\* matched_sell = current_sell.copy(); matched_sell['Quantity'] = buy_qty
matched_sell_of(current_sell, buy_qty) ==
    [current_sell EXCEPT !.Quantity = buy_qty]

\* faulty variant: the write to the remaining buy is lost
decrement_buy_lost(remaining_buys, buy_qty, sell_qty) == remaining_buys

\* remaining_buys.at[remaining_buys.index[0], 'Quantity'] = buy_qty - sell_qty
decrement_buy(remaining_buys, buy_qty, sell_qty) ==
    [remaining_buys EXCEPT ![1].Quantity = buy_qty - sell_qty]

\* remaining_sells.at[current_sell.name, 'Quantity'] = sell_qty - buy_qty
decrement_sell(remaining_sells, current_sell, sell_qty, buy_qty) ==
    [k \in DOMAIN remaining_sells |->
        IF remaining_sells[k].idx = current_sell.idx
        THEN [remaining_sells[k] EXCEPT !.Quantity = sell_qty - buy_qty]
        ELSE remaining_sells[k]]

\* the while loop of match_buy_sell_trades for one symbol
RECURSIVE fifo_loop(_, _, _)
fifo_loop(remaining_buys, remaining_sells, pairs) ==
    IF remaining_buys = <<>> \/ remaining_sells = <<>> THEN pairs
    ELSE
      LET current_buy == Head(remaining_buys)
          valid_sells == valid_sells_of(remaining_sells, current_buy)
      IN IF valid_sells = <<>>
         THEN fifo_loop(Tail(remaining_buys), remaining_sells, pairs)
         ELSE
           LET current_sell == Head(valid_sells)
               buy_qty == current_buy.Quantity
               sell_qty == current_sell.Quantity
           IN CASE buy_qty = sell_qty ->
                     fifo_loop(Tail(remaining_buys),
                               drop_sell(remaining_sells, current_sell),
                               Append(pairs,
                                   create_trade_pair(current_buy, current_sell)))
                [] buy_qty > sell_qty ->
                     fifo_loop(decrement_buy(remaining_buys, buy_qty, sell_qty),
                               drop_sell(remaining_sells, current_sell),
                               Append(pairs,
                                   create_trade_pair(
                                       matched_buy_of(current_buy, sell_qty),
                                       current_sell)))
                [] OTHER ->
                     fifo_loop(Tail(remaining_buys),
                               decrement_sell(remaining_sells, current_sell,
                                              sell_qty, buy_qty),
                               Append(pairs,
                                   create_trade_pair(
                                       current_buy,
                                       matched_sell_of(current_sell, buy_qty))))

\* the for-symbol loop of match_buy_sell_trades
RECURSIVE match_symbols(_, _, _)
match_symbols(all_trades, ord, symbols) ==
    IF symbols = <<>> THEN <<>>
    ELSE LET buys == side_rows(all_trades, ord, Head(symbols), "BUY")
             sells == side_rows(all_trades, ord, Head(symbols), "SELL")
         IN fifo_loop(buys, sells, <<>>)
                \o match_symbols(all_trades, ord, Tail(symbols))

\* the pairs match_buy_sell_trades returns
match_buy_sell_trades(all_trades, ord) ==
    IF all_trades = <<>> THEN <<>>
    ELSE match_symbols(all_trades, ord,
             unique([k \in DOMAIN all_trades |-> all_trades[k].Symbol]))

\* ------------------------------------------------ calculate_clean_positions
side_quantity(all_trades, symbol, side) ==
    SeqSum([k \in DOMAIN all_trades |->
               IF /\ all_trades[k].Symbol = symbol
                  /\ Upper(all_trades[k].Side) = side
               THEN all_trades[k].Quantity ELSE 0])

\* net_position = buy_qty - sell_qty
net_position(all_trades, symbol) ==
    side_quantity(all_trades, symbol, "BUY")
        - side_quantity(all_trades, symbol, "SELL")

\* faulty variant: every non-zero residual is recorded
significant_position_nonzero(net) == net # 0

\* abs(net_position) > 0.01, in hundredths of a share
significant_position(net) == Abs(net) > 1

\* the symbols of positions, in the dict's insertion order: the order of
\* df.sort_values('DateTimeObj')['Symbol'].unique()
position_symbols(all_trades, ord) ==
    SelectSeq(unique([j \in DOMAIN ord |-> all_trades[ord[j]].Symbol]),
              LAMBDA s : significant_position(net_position(all_trades, s)))

\* self.open_positions after calculate_clean_positions(trades)
clean_open_positions(all_trades, ord) ==
    LET syms == position_symbols(all_trades, ord)
    IN [s \in {syms[j] : j \in DOMAIN syms} |-> net_position(all_trades, s)]

\* self.position_warnings after calculate_clean_positions(trades): the
\* warning text names the symbol and the position
clean_position_warnings(all_trades, ord) ==
    LET syms == position_symbols(all_trades, ord)
    IN [j \in DOMAIN syms |->
           [symbol |-> syms[j], position |-> net_position(all_trades, syms[j])]]

\* -------------------------------------------------------- pricing strategies
\* truncate_to_minute: "MM/DD/YYYY HH:MM:SS" with the seconds set to 00
truncate_to_minute(t) == t - (t % 60)

\* truncate_to_timeframe: the start of the window of timeframe_minutes
\* minutes the time falls in
truncate_to_timeframe(t, minutes) == t - (t % (minutes * 60))

\* (df[col] * df['Quantity']).sum() over the rows a group selects
group_sum(pairs, in_group(_), value(_)) ==
    SeqSum([k \in DOMAIN pairs |->
               IF in_group(pairs[k]) THEN value(pairs[k]) ELSE 0])

\* a / b > c / d, for a, c >= 0 and b, d > 0: the whole parts decide, or
\* else the fractional parts, compared through their reciprocals
RECURSIVE greater_ratio(_, _, _, _)
greater_ratio(a, b, c, d) ==
    IF a \div b # c \div d THEN a \div b > c \div d
    ELSE IF a % b = 0 THEN FALSE
    ELSE IF c % d = 0 THEN TRUE
    ELSE greater_ratio(d, c % d, b, a % b)

\* 'Profit' if is_profit else 'Loss', or the old Result when is_profit is
\* None (one of the averages is zero).  is_profit is
\* avg_sell > avg_buy, each average a sum over a group divided by the
\* group's quantity, which is positive.
averaged_result(old, buy_cost, buy_qty, sell_proceeds, sell_qty) ==
    IF buy_cost # 0 /\ sell_proceeds # 0
    THEN IF greater_ratio(sell_proceeds, sell_qty, buy_cost, buy_qty)
         THEN "Profit" ELSE "Loss"
    ELSE old

\* trade_pairs[i]['Result'] = ...
set_result(pair, result) == [pair EXCEPT !.Result = result]

\* the pairs in the same (symbol, buy window) and (symbol, sell window)
window_result(pairs, pair, window(_)) ==
    LET same_buy(q) == q.Symbol = pair.Symbol
                         /\ window(q.BuyTime) = window(pair.BuyTime)
        same_sell(q) == q.Symbol = pair.Symbol
                          /\ window(q.SellTime) = window(pair.SellTime)
    IN averaged_result(pair.Result,
           group_sum(pairs, same_buy, LAMBDA q : q.BuyPrice * q.Quantity),
           group_sum(pairs, same_buy, LAMBDA q : q.Quantity),
           group_sum(pairs, same_sell, LAMBDA q : q.SellPrice * q.Quantity),
           group_sum(pairs, same_sell, LAMBDA q : q.Quantity))

\* faulty variant: the strategy also makes the sign of PnL follow the new Result
apply_timeframe_rewriting_pnl(pairs, minutes) ==
    [i \in DOMAIN pairs |->
        LET result == window_result(pairs, pairs[i],
                          LAMBDA t : truncate_to_timeframe(t, minutes))
        IN [pairs[i] EXCEPT
               !.Result = result,
               !.PnL = IF result = "Profit" THEN Abs(@) ELSE 0 - Abs(@)]]

apply_timeframe_based_pricing(pairs, minutes) ==
    [i \in DOMAIN pairs |->
        set_result(pairs[i],
            window_result(pairs, pairs[i],
                LAMBDA t : truncate_to_timeframe(t, minutes)))]

apply_minute_based_pricing(pairs) ==
    [i \in DOMAIN pairs |->
        set_result(pairs[i],
            window_result(pairs, pairs[i], LAMBDA t : truncate_to_minute(t)))]

\* is_profit = avg_sell_price > avg_buy_price over the whole symbol; both
\* averages divide by the same total_quantity
symbol_result(pairs, pair) ==
    LET same(q) == q.Symbol = pair.Symbol
        total_buy_cost ==
            group_sum(pairs, same, LAMBDA q : q.BuyPrice * q.Quantity)
        total_sell_proceeds ==
            group_sum(pairs, same, LAMBDA q : q.SellPrice * q.Quantity)
    IN IF total_sell_proceeds > total_buy_cost THEN "Profit" ELSE "Loss"

apply_symbol_based_pricing(pairs) ==
    [i \in DOMAIN pairs |-> set_result(pairs[i], symbol_result(pairs, pairs[i]))]

\* the strategy monitor_logs and calculate_advanced_metrics select
selected_strategy(averaging, minutes) ==
    IF averaging
    THEN IF minutes <= 1 THEN "minute" ELSE "timeframe"
    ELSE "fifo"

apply_selected_pricing(pairs, averaging, minutes) ==
    CASE selected_strategy(averaging, minutes) = "minute" ->
             apply_minute_based_pricing(pairs)
      [] selected_strategy(averaging, minutes) = "timeframe" ->
             apply_timeframe_based_pricing(pairs, minutes)
      [] OTHER -> pairs

\* self.trade_pairs at the end of a cycle that found new trades: the
\* strategy is applied by monitor_logs and once more, to the same list, by
\* calculate_advanced_metrics
cycle_trade_pairs(original_trade_pairs, averaging, minutes) ==
    apply_selected_pricing(
        apply_selected_pricing(original_trade_pairs, averaging, minutes),
        averaging, minutes)

\* -------------------------------------------------------------- metrics
\* WebullAnalytics.calculate_advanced_metrics.  A quotient is
\* <<numerator, denominator>>, <<1, 0>> is float('inf').  A standard
\* deviation is not evaluated: it is kept as the series it is taken of, and
\* a ratio to a deviation as the series of the mean, the kind of the
\* denominator and the series of the denominator.  Floats are taken as exact.
ZeroQuotient == <<0, 1>>
Infinity == <<1, 0>>
quotient(n, d) == IF n = 0 THEN ZeroQuotient ELSE <<n, d>>

\* x = y for two quotients with positive denominators
same_quotient(x, y) ==
    IF x[1] = 0 \/ y[1] = 0 THEN x[1] = y[1]
    ELSE IF (x[1] < 0) # (y[1] < 0) THEN FALSE
    ELSE /\ ~greater_ratio(Abs(x[1]), x[2], Abs(y[1]), y[2])
         /\ ~greater_ratio(Abs(y[1]), y[2], Abs(x[1]), x[2])

\* series.std(): NaN for a series of one value, 0 for equal values
std(series) == [std_of |-> series]
ZeroDeviation == [std_of |-> <<>>]

\* faulty variant: a NaN deviation counts as positive
std_positive_or_nan(series) ==
    \/ Len(series) = 1
    \/ \E i, j \in DOMAIN series : ~same_quotient(series[i], series[j])

\* series.std() > 0
std_positive(series) ==
    \E i, j \in DOMAIN series : ~same_quotient(series[i], series[j])

ZeroRatio == [mean_of |-> <<>>, over |-> "none", deviation_of |-> <<>>]

\* returns.mean() / returns.std() if returns.std() > 0 else 0
sharpe_ratio_of(returns) ==
    IF std_positive(returns)
    THEN [mean_of |-> returns, over |-> "std", deviation_of |-> returns]
    ELSE ZeroRatio

\* downside_deviation is the deviation of the negative returns when there
\* are two or more of them, 0.0001 otherwise
sortino_ratio_of(returns) ==
    LET negative_returns == SelectSeq(returns, LAMBDA x : x[1] < 0)
    IN IF Len(negative_returns) > 1
       THEN IF std_positive(negative_returns)
            THEN [mean_of |-> returns, over |-> "std",
                  deviation_of |-> negative_returns]
            ELSE ZeroRatio
       ELSE [mean_of |-> returns, over |-> "0.0001", deviation_of |-> <<>>]

\* df.sort_values('SellTime'): SellTime is a 'YYYY-MM-DD HH:MM:SS' string, so
\* the order of the strings is the order of the times; rows with the same
\* SellTime come in any order
sort_by_sell_time(pairs) ==
    LET n == Len(pairs)
    IN { p \in Permutations(1..n) :
           \A i, j \in 1..n :
               i < j => pairs[p[i]].SellTime <= pairs[p[j]].SellTime }

\* df['PnL'].cumsum()
cumsum(series) == [k \in DOMAIN series |-> SeqSum(SubSeq(series, 1, k))]

RECURSIVE SeqMax(_)
SeqMax(s) == IF Len(s) = 1 THEN s[1] ELSE Max(Head(s), SeqMax(Tail(s)))

RECURSIVE SeqMin(_)
SeqMin(s) == IF Len(s) = 1 THEN s[1] ELSE Min(Head(s), SeqMin(Tail(s)))

\* faulty variant: the cumulative series is taken for its running maximum
cummax_missing(series) == series

\* df['CumulativePnL'].cummax()
cummax(series) == [k \in DOMAIN series |-> SeqMax(SubSeq(series, 1, k))]

\* df['RunningMax'] - df['CumulativePnL']
drawdown(cumulative) ==
    [k \in DOMAIN cumulative |-> cummax(cumulative)[k] - cumulative[k]]

\* (df['Drawdown'] / df['RunningMax'] * 100).max(): a row with a running
\* maximum of 0 and a positive drawdown is inf; the rows with a negative
\* running maximum are not positive and the last row has a positive one;
\* NaN (0 / 0) is skipped
RECURSIVE max_quotient(_)
max_quotient(s) ==
    IF Len(s) = 1 THEN s[1]
    ELSE LET rest == max_quotient(Tail(s))
         IN IF greater_ratio(rest[1], rest[2], Head(s)[1], Head(s)[2])
            THEN rest ELSE Head(s)

max_drawdown_pct_of(cumulative) ==
    LET running_max == cummax(cumulative)
        dd == drawdown(cumulative)
        n == Len(cumulative)
    IN IF running_max[n] > 0
       THEN IF \E k \in 1..n : running_max[k] = 0 /\ dd[k] > 0
            THEN Infinity
            ELSE max_quotient([k \in 1..n |->
                                  IF running_max[k] > 0
                                  THEN quotient(dd[k] * 100, running_max[k])
                                  ELSE ZeroQuotient])
       ELSE ZeroQuotient

\* the streak loop: <<current_streak, current_profit_streak,
\* current_loss_streak, max_profit_streak, max_loss_streak>> after results[i]
RECURSIVE streaks(_, _)
streaks(results, i) ==
    IF i = 1
    THEN IF results[1] = "Profit" THEN <<1, 1, 0, 0, 0>> ELSE <<1, 0, 1, 0, 0>>
    ELSE LET before == streaks(results, i - 1)
             current_streak == IF results[i] = results[i - 1]
                               THEN before[1] + 1 ELSE 1
         IN IF results[i] = "Profit"
            THEN <<current_streak, current_streak, 0,
                   Max(before[4], current_streak), before[5]>>
            ELSE <<current_streak, 0, current_streak,
                   before[4], Max(before[5], current_streak)>>

\* faulty variant: the losing trades are the rows labelled 'Loss'
loss_trades_by_result(rows) ==
    LET losing == SelectSeq(rows, LAMBDA r : r.Result = "Loss")
    IN [k \in DOMAIN losing |-> losing[k].PnL]

\* df[df['PnL'] < 0], as the column PnL
loss_trades_of(rows) ==
    LET losing == SelectSeq(rows, LAMBDA r : r.PnL < 0)
    IN [k \in DOMAIN losing |-> losing[k].PnL]

reset_metrics ==
    [day_pnl |-> 0, total_trades |-> 0, profit_trades |-> 0,
     losing_trades |-> 0, profit_rate |-> ZeroQuotient,
     avg_profit |-> ZeroQuotient, avg_loss |-> ZeroQuotient,
     profit_factor |-> ZeroQuotient, sharpe_ratio |-> ZeroRatio,
     sortino_ratio |-> ZeroRatio, max_drawdown |-> 0,
     max_drawdown_pct |-> ZeroQuotient, avg_trade_duration |-> ZeroQuotient,
     expectancy |-> ZeroQuotient, consecutive_profits |-> 0,
     consecutive_losses |-> 0, max_consecutive_profits |-> 0,
     max_consecutive_losses |-> 0, largest_profit |-> 0, largest_loss |-> 0,
     profit_loss_ratio |-> ZeroQuotient, standard_deviation |-> ZeroDeviation]

\* the metrics of a non-empty list of rows, the strategy applied; ord is the
\* order of the sort before the cumulative sum.  The sort before the streak
\* loop is given the frame in that order and is taken to leave it so.
metrics_of_rows(rows, ord) ==
    LET pnl == [k \in DOMAIN rows |-> rows[k].PnL]
        profit_trades == SelectSeq(pnl, LAMBDA x : x > 0)
        loss_trades == loss_trades_of(rows)
        num_profit_trades == Len(profit_trades)
        num_loss_trades == Len(loss_trades)
        total_trades == Len(rows)
        total_profit == SeqSum(profit_trades)
        total_loss == Abs(SeqSum(loss_trades))
        returns == [k \in DOMAIN rows |->
                       <<rows[k].PnLPercent[1], rows[k].PnLPercent[2] * 100>>]
        cumulative == cumsum([k \in DOMAIN rows |-> rows[ord[k]].PnL])
        results == [k \in DOMAIN rows |-> rows[ord[k]].Result]
        final == streaks(results, Len(results))
    IN [day_pnl |-> total_profit - total_loss,
        total_trades |-> total_trades,
        profit_trades |-> num_profit_trades,
        losing_trades |-> num_loss_trades,
        profit_rate |-> quotient(num_profit_trades * 100, total_trades),
        avg_profit |-> IF num_profit_trades > 0
                       THEN <<total_profit, num_profit_trades>>
                       ELSE ZeroQuotient,
        avg_loss |-> IF num_loss_trades > 0
                     THEN <<0 - total_loss, num_loss_trades>>
                     ELSE ZeroQuotient,
        profit_factor |-> IF total_loss > 0
                          THEN quotient(total_profit, total_loss)
                          ELSE IF total_profit > 0 THEN Infinity
                          ELSE ZeroQuotient,
        sharpe_ratio |-> sharpe_ratio_of(returns),
        sortino_ratio |-> sortino_ratio_of(returns),
        max_drawdown |-> SeqMax(drawdown(cumulative)),
        max_drawdown_pct |-> max_drawdown_pct_of(cumulative),
        avg_trade_duration |->
            quotient(
                SeqSum([k \in DOMAIN rows |-> rows[k].DurationMinutes[1]]),
                60 * total_trades),
        \* avg_profit * profit_rate / 100 + avg_loss * (1 - profit_rate / 100)
        expectancy |->
            IF num_loss_trades > 0
            THEN quotient(total_profit * num_loss_trades
                              - total_loss * (total_trades - num_profit_trades),
                          total_trades * num_loss_trades)
            ELSE quotient(total_profit, total_trades),
        consecutive_profits |-> final[2],
        consecutive_losses |-> final[3],
        max_consecutive_profits |-> final[4],
        max_consecutive_losses |-> final[5],
        largest_profit |-> IF num_profit_trades > 0 THEN SeqMax(profit_trades)
                           ELSE 0,
        largest_loss |-> IF num_loss_trades > 0 THEN SeqMin(loss_trades)
                         ELSE 0,
        profit_loss_ratio |->
            IF num_loss_trades > 0
            THEN IF num_profit_trades > 0
                 THEN <<total_profit * num_loss_trades,
                        total_loss * num_profit_trades>>
                 ELSE ZeroQuotient
            ELSE IF num_profit_trades > 0 THEN Infinity ELSE ZeroQuotient,
        standard_deviation |-> std(pnl)]

\* the fields that are not at their defaults
nonzero_fields == {f \in DOMAIN reset_metrics : metrics[f] # reset_metrics[f]}

calculate_advanced_metrics(pairs, averaging, minutes, ord) ==
    IF pairs = <<>> THEN reset_metrics
    ELSE metrics_of_rows(apply_selected_pricing(pairs, averaging, minutes),
                         ord)

\* --------------------------------------------------- inputs of the matcher
TimeframeChoices == {1, 2}

\* the executions the normalizer may hand to the matcher
Executions ==
    << [Symbol |-> "A", Side |-> "BUY", Quantity |-> Shares(100),
        Price |-> 10, Time |-> 0, Commission |-> 0],
       [Symbol |-> "A", Side |-> "SELL", Quantity |-> Shares(60),
        Price |-> 12, Time |-> 60, Commission |-> 0],
       [Symbol |-> "A", Side |-> "SELL", Quantity |-> Shares(40),
        Price |-> 11, Time |-> 90, Commission |-> 0],
       [Symbol |-> "A", Side |-> "BUY", Quantity |-> Shares(60),
        Price |-> 11, Time |-> 30, Commission |-> Dollars(1)],
       [Symbol |-> "A", Side |-> "SELL", Quantity |-> Shares(100) + 1,
        Price |-> 9, Time |-> 45, Commission |-> 0],
       [Symbol |-> "A", Side |-> "buy", Quantity |-> Shares(40),
        Price |-> 10, Time |-> 60, Commission |-> 0],
       [Symbol |-> "B", Side |-> "BUY", Quantity |-> Shares(40),
        Price |-> 10, Time |-> 60, Commission |-> 0],
       [Symbol |-> "B", Side |-> "SELL", Quantity |-> Shares(40),
        Price |-> 10, Time |-> 120, Commission |-> 0],
       [Symbol |-> "A", Side |-> "SELL", Quantity |-> Shares(40),
        Price |-> 9, Time |-> 90, Commission |-> 0] >>

\* the Execution process_trade builds, with the order id of its item
Execution(e, order_id, status) ==
    [Symbol |-> e.Symbol, Side |-> e.Side, Quantity |-> e.Quantity,
     Price |-> e.Price, Time |-> e.Time, OrderID |-> order_id,
     Status |-> status, Commission |-> e.Commission]

\* ------------------------------------------------------------ the cycle
\* WebullGUI.update_gui(trades=trades_arg): "if trades: self.trades = trades"
\* keeps a reference to the caller's list, and an empty list is not kept
update_gui(trades_arg) ==
    /\ gui_trades' = IF trades_arg # <<>> THEN trades_arg ELSE gui_trades
    /\ gui_trades_live' = IF trades_arg # <<>> THEN TRUE ELSE gui_trades_live
    /\ gui_trades_shown' = gui_trades'

\* monitor_logs from "if new_trades:" on: extend, match (calculate_pnl and
\* the direct call match the same list), re-price, metrics, update_gui.  The
\* matcher sorts within a symbol and side, calculate_clean_positions across
\* the symbols: one order of the whole list stands for both sorts.
AfterNewTrades(new_trades) ==
    LET all_trades == trades \o new_trades
    IN \E ord \in sort_values(all_trades) :
        LET original_trade_pairs == match_buy_sell_trades(all_trades, ord)
            priced == apply_selected_pricing(original_trade_pairs,
                          use_average_pricing, timeframe_minutes)
        IN /\ trades' = all_trades
           /\ update_gui(all_trades)
           /\ metrics_pairs' = priced
           /\ nonzero_before' = nonzero_fields
           /\ fifo_pairs' = original_trade_pairs
           /\ trade_pairs' = cycle_trade_pairs(original_trade_pairs,
                                 use_average_pricing, timeframe_minutes)
           /\ strategy' = selected_strategy(use_average_pricing,
                                            timeframe_minutes)
           /\ open_positions' = clean_open_positions(all_trades, ord)
           /\ position_warnings' = clean_position_warnings(all_trades, ord)
           /\ metrics' \in
                 { calculate_advanced_metrics(metrics_pairs',
                       use_average_pricing, timeframe_minutes, sorted) :
                     sorted \in sort_by_sell_time(metrics_pairs') }

\* one scan cycle whose extraction returned the single new execution e
MatchCycle(e) ==
    /\ Len(trades) < MaxTrades
    /\ AfterNewTrades(
           <<Execution(e, "t" \o ToString(Len(trades) + 1), "Filled")>>)
    /\ UNCHANGED <<fileVars, tailerVars, configVars, threadVars,
                   settings_seen, scan_log>>

\* WebullConfig.update_settings
update_settings(averaging, minutes) ==
    /\ <<averaging, minutes>> # <<use_average_pricing, timeframe_minutes>>
    /\ use_average_pricing' = averaging
    /\ timeframe_minutes' = minutes

UpdateSettings(averaging, minutes) ==
    /\ update_settings(averaging, minutes)
    /\ UNCHANGED <<sessionVars, metricVars, fileVars, tailerVars, trades,
                   trade_pairs, fifo_pairs, strategy, open_positions,
                   position_warnings>>

\* WebullAnalytics.apply_symbol_based_pricing on the session's pairs
SymbolPricing ==
    /\ trade_pairs # <<>>
    /\ strategy # "symbol"
    /\ trade_pairs' = apply_symbol_based_pricing(trade_pairs)
    /\ strategy' = "symbol"
    /\ UNCHANGED <<sessionVars, metricVars, fileVars, tailerVars, configVars, trades, fifo_pairs,
                   open_positions, position_warnings>>

Files == {"f1", "f2"}

InitParser ==
    /\ processed_logs = {}
    /\ processed_trade_ids = {}
    /\ last_file_positions = << >>
    /\ position_warnings = <<>>
    /\ open_positions = << >>

InitSession ==
    /\ trades = <<>>
    /\ trade_pairs = <<>>
    /\ fifo_pairs = <<>>
    /\ strategy = "none"
    /\ metrics = reset_metrics
    /\ metrics_pairs = <<>>
    /\ nonzero_before = {}

\* the threads start_monitoring may start, in the order it starts them
Workers == 1..MaxWorkers
NoThread == 0

\* the GUI right after construction
InitGui ==
    /\ gui_trades = <<>>
    /\ gui_trades_live = FALSE
    /\ gui_trades_shown = <<>>
    /\ controller = "idle"
    /\ was_running = FALSE
    /\ cleared_while_alive = FALSE
    /\ settings_seen = TRUE
    /\ scan_log = [f \in Files |-> "none"]

\* the session right after construction, auto_start off
InitStopped ==
    /\ InitGui
    /\ running = FALSE
    /\ monitor_thread = NoThread
    /\ workers = [w \in Workers |->
                     [pc |-> "none", new_trades |-> <<>>]]
    /\ last_call = "none"

\* the session after start_monitoring, its thread at the top of the loop
InitMonitoring ==
    /\ InitGui
    /\ running = TRUE
    /\ monitor_thread = 1
    /\ workers = [w \in Workers |->
                     [pc |-> IF w = 1 THEN "check" ELSE "none",
                      new_trades |-> <<>>]]
    /\ last_call = "start"

InitFiles ==
    /\ file_lines = [f \in Files |-> <<>>]
    /\ file_size = [f \in Files |-> 0]
    /\ recently_modified = [f \in Files |-> FALSE]
    /\ mtime_order = <<"f1", "f2">>

InitMatch ==
    /\ InitFiles
    /\ InitParser
    /\ InitSession
    /\ InitMonitoring
    /\ use_average_pricing \in BOOLEAN
    /\ timeframe_minutes \in TimeframeChoices

NextMatch ==
    \/ \E k \in DOMAIN Executions : MatchCycle(Executions[k])
    \/ \E a \in BOOLEAN, m \in TimeframeChoices : UpdateSettings(a, m)
    \/ SymbolPricing

SpecMatch == InitMatch /\ [][NextMatch]_vars

\* ------------------------------------------ calculate_advanced_metrics alone
\* the pair of a buy and a sell of quantity shares of symbol A
PairOf(n, quantity, buy_price, buy_time, sell_price, sell_time) ==
    create_trade_pair(
        [Symbol |-> "A", Quantity |-> Shares(quantity), Price |-> buy_price,
         Time |-> buy_time, OrderID |-> "b" \o ToString(n), Commission |-> 0],
        [Symbol |-> "A", Quantity |-> Shares(quantity), Price |-> sell_price,
         Time |-> sell_time, OrderID |-> "s" \o ToString(n),
         Commission |-> 0])

\* the pairs a caller may hand over: PnL +100.00, -40.00, +60.00 and 0.00
\* dollars; the second and the fourth have the same SellTime
Pairs ==
    << PairOf(1, 100, 10, 0, 11, 60),
       PairOf(2, 40, 10, 60, 9, 120),
       PairOf(3, 60, 10, 120, 11, 180),
       PairOf(4, 40, 10, 0, 10, 120) >>

\* the lists of up to MaxPairs different pairs, in any order
PairLists ==
    UNION { { [k \in 1..n |-> Pairs[f[k]]] :
                f \in { g \in [1..n -> DOMAIN Pairs] :
                           \A i, j \in 1..n : i # j => g[i] # g[j] } } :
            n \in 0..MaxPairs }

\* analytics.calculate_advanced_metrics(pairs): the strategy is applied to
\* the caller's list in place
CalculateAdvancedMetrics(pairs) ==
    /\ metrics' \in
          { calculate_advanced_metrics(pairs, use_average_pricing,
                                       timeframe_minutes, sorted) :
              sorted \in sort_by_sell_time(pairs) }
    /\ metrics_pairs' = pairs
    /\ nonzero_before' = nonzero_fields
    /\ UNCHANGED <<sessionVars, fileVars, tailerVars, configVars, trades,
                   trade_pairs, fifo_pairs, strategy, open_positions,
                   position_warnings>>

NextMetrics ==
    \/ \E pairs \in PairLists : CalculateAdvancedMetrics(pairs)
    \/ \E a \in BOOLEAN, m \in TimeframeChoices : UpdateSettings(a, m)

SpecMetrics == InitMatch /\ [][NextMetrics]_vars

\* ------------------------------------------- settings changed while running
\* the executions of the cycles of SpecSettings
SettingsFeed == {1, 2, 9}

\* the settings dialog saves new values
SaveSettings(averaging, minutes) ==
    /\ update_settings(averaging, minutes)
    /\ settings_seen' = FALSE
    /\ UNCHANGED <<scan_log, threadVars, guiVars, metricVars, fileVars, tailerVars,
                   trades, trade_pairs, fifo_pairs, strategy, open_positions,
                   position_warnings>>

\* a whole pass of the loop of monitor_logs whose extraction returned the
\* single new execution e
CycleWithTrade(e) ==
    /\ Len(trades) < MaxTrades
    /\ AfterNewTrades(
           <<Execution(e, "t" \o ToString(Len(trades) + 1), "Filled")>>)
    /\ settings_seen' = TRUE
    /\ UNCHANGED <<scan_log, fileVars, tailerVars, configVars, threadVars>>

\* a whole pass of the loop whose extraction returned nothing: update_gui
\* at the top, then "if new_trades:" is skipped
IdleCycle ==
    /\ update_gui(trades)
    /\ settings_seen' = TRUE
    /\ UNCHANGED <<scan_log, fileVars, tailerVars, configVars, threadVars,
                   metricVars,
                   trades, trade_pairs, fifo_pairs, strategy, open_positions,
                   position_warnings>>

NextSettings ==
    \/ \E k \in SettingsFeed : CycleWithTrade(Executions[k])
    \/ IdleCycle
    \/ \E a \in BOOLEAN, m \in TimeframeChoices : SaveSettings(a, m)

SpecSettings == InitMatch /\ [][NextSettings]_vars

\* ============================================================ log tailer
\* A log line as the tailer sees it.  A line is written as LineSegments, in
\* this order; a file offset counts segments.  The head runs from the start
\* of the line through the marker (one of the three phrases
\* extract_trades_from_logs looks for) and ends before the end of the
\* payload; the tail is the rest, newline included.  The payload is what
\* extract_json finds at the end of the line; it cannot be decoded from a
\* part of it.
LineSegments == <<"head", "tail">>
LineLen == Len(LineSegments)

\* an absent JSON field (dict.get returns None)
NoValue == 0 - 1

\* the order items of the payloads.  Items 1 and 2 report one order of 50
\* shares twice: partially filled (30) under id o1, then filled (50) under a
\* new id o2.  Item 3 is the filled report under the first id.  Item 4 has
\* no avgFilledPrice; item 5 reports the same order with one.  The id of
\* item 6 is a JSON array or object, which
\* cannot be looked up in a set.  Items 7 and 8 are two fills without an
\* 'id' field: order.get('id', '') is the empty string for both.
OrderItems ==
    << [id |-> "o1", hashable |-> TRUE, status |-> "PartialFilled",
        filledQuantity |-> Shares(30), totalQuantity |-> Shares(50),
        action |-> "BUY", symbol |-> "A", avgFilledPrice |-> 10,
        filledTime |-> 0, fee |-> 0],
       [id |-> "o2", hashable |-> TRUE, status |-> "Filled",
        filledQuantity |-> Shares(50), totalQuantity |-> Shares(50),
        action |-> "BUY", symbol |-> "A", avgFilledPrice |-> 10,
        filledTime |-> 30, fee |-> 0],
       [id |-> "o1", hashable |-> TRUE, status |-> "Filled",
        filledQuantity |-> Shares(50), totalQuantity |-> Shares(50),
        action |-> "BUY", symbol |-> "A", avgFilledPrice |-> 10,
        filledTime |-> 30, fee |-> 0],
       [id |-> "o3", hashable |-> TRUE, status |-> "Filled",
        filledQuantity |-> NoValue, totalQuantity |-> Shares(40),
        action |-> "SELL", symbol |-> "A", avgFilledPrice |-> NoValue,
        filledTime |-> 60, fee |-> 0],
       [id |-> "o3", hashable |-> TRUE, status |-> "Working",
        filledQuantity |-> Shares(40), totalQuantity |-> Shares(40),
        action |-> "SELL", symbol |-> "A", avgFilledPrice |-> 12,
        filledTime |-> 60, fee |-> Dollars(1)],
       [id |-> "o4", hashable |-> FALSE, status |-> "Filled",
        filledQuantity |-> Shares(40), totalQuantity |-> Shares(40),
        action |-> "SELL", symbol |-> "A", avgFilledPrice |-> 12,
        filledTime |-> 90, fee |-> 0],
       [id |-> "", hashable |-> TRUE, status |-> "Filled",
        filledQuantity |-> Shares(10), totalQuantity |-> Shares(10),
        action |-> "BUY", symbol |-> "B", avgFilledPrice |-> 5,
        filledTime |-> 0, fee |-> 0],
       [id |-> "", hashable |-> TRUE, status |-> "Filled",
        filledQuantity |-> Shares(20), totalQuantity |-> Shares(20),
        action |-> "SELL", symbol |-> "B", avgFilledPrice |-> 6,
        filledTime |-> 30, fee |-> 0] >>

\* the lines the writer may write: payload is "ok" (decodes to an order
\* update with these items) or "bad" (extract_json returns None: nothing
\* that decodes)
LogLines ==
    << [marker |-> TRUE, payload |-> "ok", orders |-> <<1>>],
       [marker |-> TRUE, payload |-> "ok", orders |-> <<2>>],
       [marker |-> TRUE, payload |-> "ok", orders |-> <<3, 4, 5>>],
       [marker |-> TRUE, payload |-> "ok", orders |-> <<5>>],
       [marker |-> TRUE, payload |-> "ok", orders |-> <<2, 6>>],
       [marker |-> FALSE, payload |-> "ok", orders |-> <<2>>],
       [marker |-> TRUE, payload |-> "bad", orders |-> <<>>],
       [marker |-> TRUE, payload |-> "ok", orders |-> <<7>>],
       [marker |-> TRUE, payload |-> "ok", orders |-> <<4, 8, 5>>] >>

\* ----------------------------------------------------------- process_trade
\* filled_quantity: filledQuantity for a partial fill, else
\* "filledQuantity or totalQuantity"
filled_quantity_of(order_item) ==
    IF order_item.status = "PartialFilled"
    THEN order_item.filledQuantity
    ELSE IF order_item.filledQuantity # NoValue /\ order_item.filledQuantity # 0
         THEN order_item.filledQuantity
         ELSE order_item.totalQuantity

\* parse_date_time: (date, time) of the timestamp, None when there is none
parse_date_time(filled_time) ==
    IF filled_time = NoValue THEN NoValue ELSE filled_time

\* process_trade: <<trade>>, or <<>> for None
process_trade(order_item) ==
    LET filled_quantity == filled_quantity_of(order_item)
    IN IF filled_quantity = NoValue \/ filled_quantity <= 0 THEN <<>>
       ELSE IF \/ order_item.action = ""
               \/ order_item.avgFilledPrice = NoValue
               \/ order_item.filledTime = NoValue
               \/ order_item.symbol = ""
            THEN <<>>
       ELSE IF parse_date_time(order_item.filledTime) = NoValue THEN <<>>
       ELSE << [Symbol |-> order_item.symbol,
                Side |-> order_item.action,
                Quantity |-> Abs(filled_quantity),
                Price |-> order_item.avgFilledPrice,
                Time |-> parse_date_time(order_item.filledTime),
                OrderID |-> order_item.id,
                Status |-> order_item.status,
                Commission |-> order_item.fee] >>

\* the filter of extract_orders_from_summary / _items / _list
has_fill(item) ==
    \/ item.status = "Filled"
    \/ item.status = "PartialFilled"
    \/ (item.filledQuantity # NoValue /\ item.filledQuantity > 0)

\* the membership test left out
never_processed(order_id, ids) == FALSE

\* faulty variant: an item without an id is never taken as seen
already_processed_with_id(order_id, ids) == order_id # "" /\ order_id \in ids

\* "if order_id in self.processed_trade_ids: continue"
already_processed(order_id, ids) == order_id \in ids

\* faulty variant: the id of a partial fill is not remembered
add_unless_partial(ids, order) ==
    IF order.status = "PartialFilled" THEN ids ELSE ids \cup {order.id}

\* self.processed_trade_ids.add(order_id)
add(ids, order) == ids \cup {order.id}

\* the "for order in orders" loop; st is [ids, new_trades, raised].  The
\* membership test raises TypeError for an id that cannot be hashed, which
\* ends the reading of the file.
RECURSIVE add_orders(_, _)
add_orders(orders, st) ==
    IF orders = <<>> THEN st
    ELSE LET order == Head(orders)
             trade == process_trade(order)
         IN IF ~order.hashable THEN [st EXCEPT !.raised = TRUE]
            ELSE IF already_processed(order.id, st.ids) \/ trade = <<>>
            THEN add_orders(Tail(orders), st)
            ELSE add_orders(Tail(orders),
                     [st EXCEPT !.ids = add(@, order),
                                !.new_trades = Append(@, trade[1])])

\* ------------------------------------------------------------ reading
\* the part of line i (1-based) of a file that a read from position to
\* size returns as one line: its first and last segment
piece_of(lines, position, size, i) ==
    [line |-> LogLines[lines[i]],
     first |-> Max(position - (i - 1) * LineLen, 0) + 1,
     last |-> Min(size - (i - 1) * LineLen, LineLen)]

\* "for line in file" after file.seek(last_position)
pieces_read(lines, position, size) ==
    IF size <= position THEN <<>>
    ELSE LET from == (position \div LineLen) + 1
             to == ((size - 1) \div LineLen) + 1
         IN [n \in 1..(to - from + 1) |->
                piece_of(lines, position, size, from + n - 1)]

has_segment(piece, segment) ==
    \E k \in piece.first..piece.last : LineSegments[k] = segment

\* one of the three marker phrases is in the line
has_marker(piece) == piece.line.marker /\ has_segment(piece, "head")

\* extract_json(buf_line): the decoded payload, [found |-> FALSE] for None
extract_json(piece) ==
    IF /\ piece.line.payload = "ok"
       /\ has_segment(piece, "head")
       /\ has_segment(piece, "tail")
    THEN [found |-> TRUE, orders |-> piece.line.orders]
    ELSE [found |-> FALSE, orders |-> <<>>]

\* line_buffer keeps the last five lines of this read
BufferSize == 5

\* "for buf_line in reversed(line_buffer)": the newest buffered line with a
\* payload
buffered_json(pieces, n) ==
    LET with_json == {j \in Max(1, n - BufferSize + 1)..n :
                         extract_json(pieces[j]).found}
    IN IF with_json = {} THEN [found |-> FALSE, orders |-> <<>>]
       ELSE extract_json(
                pieces[CHOOSE j \in with_json : \A k \in with_json : k <= j])

\* the orders a payload yields
orders_of(json_data) ==
    LET items == [k \in DOMAIN json_data.orders |->
                     OrderItems[json_data.orders[k]]]
    IN SelectSeq(items, has_fill)

\* faulty variant: a marker line without a payload that decodes ends the read
RECURSIVE read_lines_until_bad(_, _, _)
read_lines_until_bad(pieces, n, st) ==
    IF n > Len(pieces) \/ st.raised THEN st
    ELSE IF has_marker(pieces[n])
         THEN IF buffered_json(pieces, n).found
              THEN read_lines_until_bad(pieces, n + 1,
                       add_orders(orders_of(buffered_json(pieces, n)), st))
              ELSE [st EXCEPT !.raised = TRUE]
         ELSE read_lines_until_bad(pieces, n + 1, st)

\* the body of "for line in file", lines n.. of this read
RECURSIVE read_lines(_, _, _)
read_lines(pieces, n, st) ==
    IF n > Len(pieces) \/ st.raised THEN st
    ELSE IF has_marker(pieces[n]) /\ buffered_json(pieces, n).found
         THEN read_lines(pieces, n + 1,
                  add_orders(orders_of(buffered_json(pieces, n)), st))
         ELSE read_lines(pieces, n + 1, st)

\* faulty variant: the age of the last modification is not looked at
skipped_whatever_age(f, positions, denied) ==
    LET last_position == IF f \in DOMAIN positions THEN positions[f] ELSE 0
    IN \/ f \in processed_logs
       \/ (last_position >= file_size[f] /\ last_position > 0)
       \/ f \in denied

\* faulty variant: a file that cannot be opened ends the loop over the files
break_when_denied(log_files, denied) ==
    IF Head(log_files) \in denied THEN <<>> ELSE Tail(log_files)

\* "continue": the loop goes on with the files after the one left alone
continue_after(log_files, denied) == Tail(log_files)

\* faulty variant: a file that was read before is taken as done
skipped_once_read(f, positions, denied) ==
    LET last_position == IF f \in DOMAIN positions THEN positions[f] ELSE 0
    IN \/ f \in processed_logs
       \/ recently_modified[f]
       \/ last_position > 0
       \/ f \in denied

\* the file is left alone this cycle: in processed_logs, modified less than
\* 0.5 s ago, nothing new behind the cursor, or open() denied
skipped(f, positions, denied) ==
    LET last_position == IF f \in DOMAIN positions THEN positions[f] ELSE 0
    IN \/ f \in processed_logs
       \/ recently_modified[f]
       \/ (last_position >= file_size[f] /\ last_position > 0)
       \/ f \in denied

\* faulty variant: the cursor is moved whether or not the reading raised
update_last_position_always(positions, f, raised) ==
    [g \in DOMAIN positions \cup {f} |->
        IF g = f THEN file_size[f] ELSE positions[g]]

\* "self.last_file_positions[log_file] = file.tell()" after the last line,
\* which is the size the file had; an exception in the loop jumps over it
update_last_position(positions, f, raised) ==
    IF raised THEN positions
    ELSE [g \in DOMAIN positions \cup {f} |->
            IF g = f THEN file_size[f] ELSE positions[g]]

\* the "for log_file in log_files" loop; st is [ids, new_trades, positions].
\* The cursor of a file is set to file.tell() after its last line, unless
\* an exception ended the reading.
RECURSIVE scan_files(_, _, _)
scan_files(log_files, denied, st) ==
    IF log_files = <<>> THEN st
    ELSE
      LET f == Head(log_files)
          last_position ==
              IF f \in DOMAIN st.positions THEN st.positions[f] ELSE 0
          read == read_lines(
                      pieces_read(file_lines[f], last_position, file_size[f]),
                      1, [ids |-> st.ids, new_trades |-> st.new_trades,
                          raised |-> FALSE])
      IN IF skipped(f, st.positions, denied)
         THEN scan_files(continue_after(log_files, denied), denied, st)
         ELSE scan_files(Tail(log_files), denied,
                  [ids |-> read.ids,
                   new_trades |-> read.new_trades,
                   positions |->
                       update_last_position(st.positions, f, read.raised)])

\* extract_trades_from_logs(log_files)
extract_trades_from_logs(log_files, denied) ==
    scan_files(log_files, denied,
        [ids |-> processed_trade_ids, new_trades |-> <<>>,
         positions |-> last_file_positions])

\* ------------------------------------------------------------ the writer
SegmentsWritten ==
    SeqSum([j \in 1..Len(mtime_order) |-> file_size[mtime_order[j]]])

\* os.path.getmtime order after a write to f
touched(f) == <<f>> \o SelectSeq(mtime_order, LAMBDA g : g # f)

\* the writer begins line l at the end of f and gets k of its segments to
\* disk
WriteLine(f, l, k) ==
    /\ SegmentsWritten + k <= MaxSegments
    /\ file_size[f] = Len(file_lines[f]) * LineLen
    /\ file_lines' = [file_lines EXCEPT ![f] = Append(@, l)]
    /\ file_size' = [file_size EXCEPT ![f] = @ + k]
    /\ recently_modified' = [recently_modified EXCEPT ![f] = TRUE]
    /\ mtime_order' = touched(f)
    /\ UNCHANGED <<sessionVars, metricVars, tailerVars, configVars, trades, trade_pairs, fifo_pairs,
                   strategy, open_positions, position_warnings>>

\* the writer gets the rest of the last line of f to disk
WriteRest(f) ==
    /\ file_size[f] < Len(file_lines[f]) * LineLen
    /\ SegmentsWritten + (Len(file_lines[f]) * LineLen - file_size[f])
          <= MaxSegments
    /\ file_size' = [file_size EXCEPT ![f] = Len(file_lines[f]) * LineLen]
    /\ recently_modified' = [recently_modified EXCEPT ![f] = TRUE]
    /\ mtime_order' = touched(f)
    /\ UNCHANGED <<sessionVars, metricVars, file_lines, tailerVars, configVars, trades, trade_pairs,
                   fifo_pairs, strategy, open_positions, position_warnings>>

\* half a second passes without a write
Quiet ==
    /\ \E f \in Files : recently_modified[f]
    /\ recently_modified' = [f \in Files |-> FALSE]
    /\ UNCHANGED <<sessionVars, metricVars, file_lines, file_size, mtime_order, tailerVars, configVars,
                   trades, trade_pairs, fifo_pairs, strategy, open_positions,
                   position_warnings>>

\* one pass of the while loop of monitor_logs; open() is denied for the
\* files in denied.  The reads are taken as atomic with respect to the
\* writer.
scan_cycle(denied) ==
    LET found == extract_trades_from_logs(mtime_order, denied)
    IN /\ processed_trade_ids' = found.ids
       /\ last_file_positions' = found.positions
       /\ UNCHANGED <<processed_logs, fileVars, configVars, threadVars,
                      settings_seen>>
       /\ IF found.new_trades # <<>>
          THEN AfterNewTrades(found.new_trades)
          ELSE UNCHANGED <<guiVars, metricVars, trades, trade_pairs, fifo_pairs, strategy,
                           open_positions, position_warnings>>

ScanCycle(denied) ==
    /\ scan_cycle(denied)
    /\ UNCHANGED scan_log

\* what extract_trades_from_logs does with file f, by the tests of lines
\* 167, 178, 189 and the open() of line 196, in this order
scan_outcome(f, denied) ==
    LET last_position ==
            IF f \in DOMAIN last_file_positions
            THEN last_file_positions[f] ELSE 0
    IN CASE f \in processed_logs -> "processed"
         [] recently_modified[f] -> "recent"
         [] last_position >= file_size[f] /\ last_position > 0 -> "unchanged"
         [] f \in denied -> "denied"
         [] OTHER -> "read"

\* the same pass, with a record of what it did with each file
LoggedScan(denied) ==
    /\ scan_cycle(denied)
    /\ scan_log' = [f \in Files |-> scan_outcome(f, denied)]

\* a session whose settings.ini selects averaging over one minute; both
\* today files exist and are empty
Init ==
    /\ InitFiles
    /\ InitParser
    /\ InitSession
    /\ InitMonitoring
    /\ use_average_pricing = TRUE
    /\ timeframe_minutes = 1

\* the lines of items that carry an id
WriterLines == 1..7

Next ==
    \/ \E f \in Files, l \in WriterLines, k \in 1..LineLen :
           WriteLine(f, l, k)
    \/ \E f \in Files : WriteRest(f)
    \/ Quiet
    \/ \E denied \in SUBSET Files : ScanCycle(denied)

Spec == Init /\ [][Next]_vars

\* The tailer under its scheduling: the loop of monitor_logs comes back to
\* the scan every scan_interval seconds, and half a second without a write
\* comes to pass once the writer pauses.
\* the tailer with a record of each scan; the writer writes the partial
\* report of the 50-share order, the line with an item that process_trade
\* rejects, the line with the id that cannot be hashed and the line that
\* does not decode
ScanLines == {1, 3, 5, 7}

NextScan ==
    \/ \E f \in Files, l \in ScanLines, k \in 1..LineLen :
           WriteLine(f, l, k)
    \/ \E f \in Files : WriteRest(f)
    \/ Quiet
    \/ \E denied \in SUBSET Files : LoggedScan(denied)

SpecScan == Init /\ [][NextScan]_vars

\* the tailer when the writer writes the lines with items without an id
IdLines == {8, 9}

NextIds ==
    \/ \E f \in Files, l \in IdLines, k \in 1..LineLen :
           WriteLine(f, l, k)
    \/ \E f \in Files : WriteRest(f)
    \/ Quiet
    \/ \E denied \in SUBSET Files : ScanCycle(denied)

SpecIds == Init /\ [][NextIds]_vars

\* The writer writes the two reports of the 50-share order and the line with
\* the id that cannot be hashed.
AppendedLines == {1, 2, 5}

NextLive ==
    \/ \E f \in Files, l \in AppendedLines, k \in 1..LineLen :
           WriteLine(f, l, k)
    \/ \E f \in Files : WriteRest(f)
    \/ Quiet
    \/ \E denied \in SUBSET Files : ScanCycle(denied)

\* a scan that is denied no file would change the parser's state
ScanDue ==
    LET found == extract_trades_from_logs(mtime_order, {})
    IN \/ found.ids # processed_trade_ids
       \/ found.positions # last_file_positions

\* ScanCycle({}) can change the state exactly when ScanDue holds, and leaves
\* a state where it does not: []<>~ScanDue is WF_vars(ScanCycle({})), written
\* with the state predicate.
SpecLive ==
    /\ Init
    /\ [][NextLive]_vars
    /\ []<>(~ScanDue)
    /\ WF_vars(Quiet)

\* ====================================================== threads of a session
\* The Tk thread runs start_monitoring, stop_monitoring and the reset of the
\* settings tab, one at a time; each thread start_monitoring starts runs
\* monitor_logs.  A thread's pc: "none" (not started), "begin" (started,
\* before line 131), "check" (at "while self.running"), "scan" (in the
\* pass, up to the return of extract_trades_from_logs), "extend" (before
\* self.trades.extend), "finish" (from calculate_pnl to update_gui), "sleep",
\* "error_sleep" (the handler's sleep(5)), "done".

\* Thread.is_alive()
is_alive(w) == w # NoThread /\ workers[w].pc \notin {"none", "done"}

\* the threads inside monitor_logs' loop
in_pipeline ==
    {w \in Workers : workers[w].pc \in {"check", "scan", "extend", "finish",
                                         "sleep", "error_sleep"}}

\* join(timeout=2.0) gives up on w: a scan, the rest of a pass or the
\* handler's sleep(5) can outlast it; a thread that sleeps or tests the
\* flag outlasts it only while the flag is set
outlasts_join(w) ==
    \/ workers[w].pc \in {"scan", "extend", "finish", "error_sleep"}
    \/ running /\ workers[w].pc \in {"check", "sleep"}

\* WebullLogParser.reset
reset ==
    /\ processed_logs' = {}
    /\ processed_trade_ids' = {}
    /\ last_file_positions' = << >>
    /\ position_warnings' = <<>>
    /\ open_positions' = << >>

\* a state-clearing step runs now
clearing ==
    cleared_while_alive' = (cleared_while_alive \/ \E w \in Workers : is_alive(w))

started == Cardinality({w \in Workers : workers[w].pc # "none"})

\* WebullRealtimePnL.start_monitoring
start_monitoring ==
    IF ~running
    THEN /\ started < MaxWorkers
         /\ running' = TRUE
         /\ monitor_thread' = started + 1
         /\ workers' = [workers EXCEPT ![started + 1].pc = "begin"]
         /\ update_gui(trades)
    ELSE UNCHANGED <<running, monitor_thread, workers, guiVars>>

StartMonitoring ==
    /\ controller = "idle"
    /\ start_monitoring
    /\ last_call' = "start"
    /\ UNCHANGED <<controller, was_running, cleared_while_alive,
                   settings_seen, scan_log, metricVars, fileVars, tailerVars,
                   configVars, trades, trade_pairs, fifo_pairs, strategy,
                   open_positions, position_warnings>>

\* WebullRealtimePnL.stop_monitoring up to the join; after is where the
\* caller goes on when there is nothing to join
stop_monitoring(joining, after) ==
    IF running
    THEN /\ running' = FALSE
         /\ IF is_alive(monitor_thread)
            THEN controller' = joining /\ UNCHANGED guiVars
            ELSE controller' = after /\ update_gui(trades)
    ELSE controller' = after /\ UNCHANGED <<running, guiVars>>

StopMonitoring ==
    /\ controller = "idle"
    /\ stop_monitoring("join", "idle")
    /\ last_call' = "stop"
    /\ UNCHANGED <<monitor_thread, workers, was_running,
                   cleared_while_alive, settings_seen, scan_log, metricVars, fileVars,
                   tailerVars, configVars, trades, trade_pairs, fifo_pairs,
                   strategy, open_positions, position_warnings>>

\* the end of the join, and the rest of stop_monitoring
after_join ==
    /\ controller' = IF controller = "join" THEN "idle" ELSE "reset_clear"
    /\ update_gui(trades)
    /\ UNCHANGED <<running, monitor_thread, workers, was_running, last_call,
                   cleared_while_alive, settings_seen, scan_log, metricVars, fileVars,
                   tailerVars, configVars, trades, trade_pairs, fifo_pairs,
                   strategy, open_positions, position_warnings>>

\* the thread has terminated
JoinReturn ==
    /\ controller \in {"join", "reset_join"}
    /\ ~is_alive(monitor_thread)
    /\ after_join

\* two seconds have passed and the thread is alive
JoinTimeout ==
    /\ controller \in {"join", "reset_join"}
    /\ outlasts_join(monitor_thread)
    /\ after_join

\* SettingsComponents.reset_data after the confirmation: log_parser.reset(),
\* analytics.reset_metrics(), then the callback, WebullRealtimePnL.reset_data,
\* up to the join of its stop_monitoring
GuiResetData ==
    /\ controller = "idle"
    /\ reset
    /\ metrics' = reset_metrics
    /\ clearing
    /\ was_running' = running
    /\ stop_monitoring("reset_join", "reset_clear")
    /\ last_call' = "reset"
    /\ UNCHANGED <<monitor_thread, workers, settings_seen, scan_log, metrics_pairs,
                   nonzero_before, fileVars, configVars, trades, trade_pairs,
                   fifo_pairs, strategy>>

\* reset_data after stop_monitoring: new empty lists, log_parser.reset(),
\* reset_metrics(), update_gui
ResetClear ==
    /\ controller = "reset_clear"
    /\ trades' = <<>>
    /\ trade_pairs' = <<>>
    /\ fifo_pairs' = <<>>
    /\ strategy' = "none"
    /\ reset
    /\ metrics' = reset_metrics
    /\ clearing
    /\ gui_trades_live' = FALSE
    /\ gui_trades_shown' = gui_trades
    /\ controller' = IF was_running THEN "reset_restart" ELSE "idle"
    /\ UNCHANGED <<running, monitor_thread, workers, was_running, last_call,
                   gui_trades, settings_seen, scan_log, metrics_pairs, nonzero_before,
                   fileVars, configVars>>

\* reset_data after its sleep(1): start_monitoring
ResetRestart ==
    /\ controller = "reset_restart"
    /\ start_monitoring
    /\ controller' = "idle"
    /\ UNCHANGED <<was_running, last_call, cleared_while_alive,
                   settings_seen, scan_log, metricVars, fileVars, tailerVars,
                   configVars, trades, trade_pairs, fifo_pairs, strategy,
                   open_positions, position_warnings>>

\* what a step of thread w leaves alone besides the session's data
worker_frame ==
    UNCHANGED <<monitor_thread, controller, was_running, last_call,
                cleared_while_alive, settings_seen, scan_log, fileVars, configVars,
                processed_logs>>

session_data ==
    <<trades, trade_pairs, fifo_pairs, strategy, open_positions,
      position_warnings, metricVars>>

\* monitor_logs line 131: self.running = True
WorkerBegin(w) ==
    /\ workers[w].pc = "begin"
    /\ running' = TRUE
    /\ workers' = [workers EXCEPT ![w].pc = "check"]
    /\ worker_frame
    /\ UNCHANGED <<session_data, guiVars, processed_trade_ids,
                   last_file_positions>>

\* "while self.running:", and the update_gui at the top of the pass
WorkerCheck(w) ==
    /\ workers[w].pc = "check"
    /\ IF running
       THEN /\ workers' = [workers EXCEPT ![w].pc = "scan"]
            /\ update_gui(trades)
       ELSE /\ workers' = [workers EXCEPT ![w].pc = "done"]
            /\ UNCHANGED guiVars
    /\ worker_frame
    /\ UNCHANGED <<running, session_data, processed_trade_ids,
                   last_file_positions>>

\* extract_trades_from_logs returns; with nothing new the pass is over
WorkerScan(w) ==
    LET found == extract_trades_from_logs(mtime_order, {})
    IN /\ workers[w].pc = "scan"
       /\ processed_trade_ids' = found.ids
       /\ last_file_positions' = found.positions
       /\ workers' = [workers EXCEPT ![w] =
              IF found.new_trades # <<>>
              THEN [@ EXCEPT !.pc = "extend",
                             !.new_trades = found.new_trades]
              ELSE [@ EXCEPT !.pc = "sleep"]]
       /\ worker_frame
       /\ UNCHANGED <<running, session_data, guiVars>>

\* self.trades.extend(new_trades): the list the GUI may hold grows in place
WorkerExtend(w) ==
    /\ workers[w].pc = "extend"
    /\ trades' = trades \o workers[w].new_trades
    /\ gui_trades' = IF gui_trades_live THEN trades' ELSE gui_trades
    /\ workers' = [workers EXCEPT ![w].pc = "finish", ![w].new_trades = <<>>]
    /\ worker_frame
    /\ UNCHANGED <<running, trade_pairs, fifo_pairs, strategy,
                   open_positions, position_warnings, metricVars,
                   gui_trades_live, gui_trades_shown, processed_trade_ids,
                   last_file_positions>>

\* calculate_pnl, match, re-price, metrics, update_gui
WorkerFinish(w) ==
    /\ workers[w].pc = "finish"
    /\ AfterNewTrades(<<>>)
    /\ workers' = [workers EXCEPT ![w].pc = "sleep"]
    /\ worker_frame
    /\ UNCHANGED <<running, processed_trade_ids, last_file_positions>>

\* the sleep loop ends
WorkerWake(w) ==
    /\ workers[w].pc = "sleep"
    /\ workers' = [workers EXCEPT ![w].pc = "check"]
    /\ worker_frame
    /\ UNCHANGED <<running, session_data, guiVars, processed_trade_ids,
                   last_file_positions>>

\* faulty variant: an exception in a pass ends the thread
WorkerFailFatal(w) ==
    /\ workers[w].pc \in {"scan", "extend", "finish"}
    /\ workers' = [workers EXCEPT ![w].pc = "done", ![w].new_trades = <<>>]
    /\ worker_frame
    /\ UNCHANGED <<running, session_data, guiVars, processed_trade_ids,
                   last_file_positions>>

\* a step of the pass raises: "except Exception" inside the loop logs it
\* and sleeps five seconds
WorkerFail(w) ==
    /\ workers[w].pc \in {"scan", "extend", "finish"}
    /\ workers' = [workers EXCEPT ![w].pc = "error_sleep",
                                  ![w].new_trades = <<>>]
    /\ worker_frame
    /\ UNCHANGED <<running, session_data, guiVars, processed_trade_ids,
                   last_file_positions>>

\* the five seconds are over: back to "while self.running:"
WorkerRecover(w) ==
    /\ workers[w].pc = "error_sleep"
    /\ workers' = [workers EXCEPT ![w].pc = "check"]
    /\ worker_frame
    /\ UNCHANGED <<running, session_data, guiVars, processed_trade_ids,
                   last_file_positions>>

\* the writer adds a whole line to the first file: the report of a buy to
\* the empty file, the report of a sell after it
WriteBuyLine ==
    /\ file_lines["f1"] = <<>>
    /\ WriteLine("f1", 1, LineLen)

WriteSellLine ==
    /\ file_lines["f1"] # <<>>
    /\ WriteLine("f1", 4, LineLen)

InitThreads ==
    /\ InitFiles
    /\ InitParser
    /\ InitSession
    /\ InitStopped
    /\ use_average_pricing = TRUE
    /\ timeframe_minutes = 1

NextThreads ==
    \/ StartMonitoring
    \/ StopMonitoring
    \/ JoinReturn
    \/ JoinTimeout
    \/ GuiResetData
    \/ ResetClear
    \/ ResetRestart
    \/ \E w \in Workers : WorkerBegin(w)
    \/ \E w \in Workers : WorkerCheck(w)
    \/ \E w \in Workers : WorkerScan(w)
    \/ \E w \in Workers : WorkerExtend(w)
    \/ \E w \in Workers : WorkerFinish(w)
    \/ \E w \in Workers : WorkerWake(w)
    \/ \E w \in Workers : WorkerFail(w)
    \/ \E w \in Workers : WorkerRecover(w)
    \/ WriteBuyLine
    \/ Quiet

SpecThreads == InitThreads /\ [][NextThreads]_vars

\* one thread, started by auto_start and stopped by the user at most once
InitMonitor ==
    /\ InitFiles
    /\ InitParser
    /\ InitSession
    /\ InitMonitoring
    /\ use_average_pricing = TRUE
    /\ timeframe_minutes = 1

NextMonitor ==
    \/ \E w \in Workers : WorkerCheck(w)
    \/ \E w \in Workers : WorkerScan(w)
    \/ \E w \in Workers : WorkerExtend(w)
    \/ \E w \in Workers : WorkerFinish(w)
    \/ \E w \in Workers : WorkerWake(w)
    \/ \E w \in Workers : WorkerFail(w)
    \/ \E w \in Workers : WorkerRecover(w)
    \/ StopMonitoring
    \/ JoinReturn
    \/ JoinTimeout
    \/ WriteBuyLine
    \/ WriteSellLine
    \/ Quiet

SpecMonitor == InitMonitor /\ [][NextMonitor]_vars

\* ================================================================ claims
\* helpers of the claims: sums taken directly over the session's lists
TradeQty(symbol, side) ==
    SeqSum([k \in DOMAIN trades |->
               IF trades[k].Symbol = symbol /\ Upper(trades[k].Side) = side
               THEN trades[k].Quantity ELSE 0])

PairQty(symbol) ==
    SeqSum([i \in DOMAIN trade_pairs |->
               IF trade_pairs[i].Symbol = symbol
               THEN trade_pairs[i].Quantity ELSE 0])

MatchedAgainst(order_id) ==
    SeqSum([i \in DOMAIN trade_pairs |->
               IF order_id \in {trade_pairs[i].BuyOrderID,
                                trade_pairs[i].SellOrderID}
               THEN trade_pairs[i].Quantity ELSE 0])

TradedSymbols == {trades[k].Symbol : k \in DOMAIN trades}

SellsFollowBuys(symbol) ==
    \A b, s \in DOMAIN trades :
        (/\ trades[b].Symbol = symbol /\ Upper(trades[b].Side) = "BUY"
         /\ trades[s].Symbol = symbol /\ Upper(trades[s].Side) = "SELL")
            => trades[s].Time > trades[b].Time

\* the trades of the session that carry this order id
TradesOf(order_id) == {k \in DOMAIN trades : trades[k].OrderID = order_id}

\* the order ids of the execution records of a line: the items of its
\* payload that pass the filter and that process_trade accepts
RecordIds(l) ==
    IF LogLines[l].marker /\ LogLines[l].payload = "ok"
    THEN {OrderItems[LogLines[l].orders[k]].id :
            k \in {n \in DOMAIN LogLines[l].orders :
                     LET item == OrderItems[LogLines[l].orders[n]]
                     IN /\ item.hashable
                        /\ has_fill(item)
                        /\ process_trade(item) # <<>>}}
    ELSE {}

\* C1: the session's trades hold at most one execution per order id, and
\* the id of every one of them is in processed_trade_ids, so that an item
\* with that id read again is not emitted again.
C1_OneExecutionPerOrderId ==
    /\ \A order_id \in processed_trade_ids :
          Cardinality(TradesOf(order_id)) <= 1
    /\ \A k \in DOMAIN trades : trades[k].OrderID \in processed_trade_ids

\* the files hold only the partial report of o1 and the line that reports
\* o1 again, ahead of o3; o1 was taken from the partial report and o3 from
\* the other line, so the second report of o1 was read and dropped
C1_Witness ==
    /\ \A f \in Files : \A i \in DOMAIN file_lines[f] :
          /\ LogLines[file_lines[f][i]].marker
          /\ LogLines[file_lines[f][i]].orders \in {<<1>>, <<3, 4, 5>>}
    /\ \E k \in TradesOf("o1") : trades[k].Status = "PartialFilled"
    /\ TradesOf("o3") # {}

\* C2 (as the specification states it): a record whose line is on disk and
\* behind the cursor of its file, where no later scan reads it, has been
\* ingested, exactly once.
C2_ExactlyOnce ==
    \A f \in DOMAIN last_file_positions :
        \A i \in DOMAIN file_lines[f] :
            i * LineLen <= last_file_positions[f] =>
                \A order_id \in RecordIds(file_lines[f][i]) :
                    Cardinality(TradesOf(order_id)) = 1

\* C3: for every symbol the quantity summed over the emitted pairs is at
\* most min(sum of buys, sum of sells), equals it when every sell of the
\* symbol is strictly later than every buy, and no execution is matched for
\* more than its own quantity.
C3_FifoConservation ==
    /\ \A symbol \in TradedSymbols :
          /\ PairQty(symbol)
                <= Min(TradeQty(symbol, "BUY"), TradeQty(symbol, "SELL"))
          /\ SellsFollowBuys(symbol)
                => PairQty(symbol)
                     = Min(TradeQty(symbol, "BUY"), TradeQty(symbol, "SELL"))
    /\ \A k \in DOMAIN trades :
          MatchedAgainst(trades[k].OrderID) <= trades[k].Quantity

\* one buy split over two pairs, all sells after all buys, a residual left
C3_Witness ==
    /\ Len(trade_pairs) = 2
    /\ trade_pairs[1].BuyOrderID = trade_pairs[2].BuyOrderID
    /\ SellsFollowBuys("A")
    /\ TradeQty("A", "BUY") < TradeQty("A", "SELL")
    /\ PairQty("A") = TradeQty("A", "BUY")

\* C4: the sell of every emitted pair is strictly later than its buy, and
\* the pair's duration is not negative.
C4_SellAfterBuy ==
    \A i \in DOMAIN trade_pairs :
        /\ trade_pairs[i].SellTime > trade_pairs[i].BuyTime
        /\ trade_pairs[i].DurationMinutes[1] >= 0

\* a pair was emitted although the symbol has a sell at the time of one of
\* its buys, and the input list holds a sell before a buy
C4_Witness ==
    /\ trade_pairs # <<>>
    /\ \E b, s \in DOMAIN trades :
          /\ s < b
          /\ trades[b].Symbol = trades[s].Symbol
          /\ Upper(trades[b].Side) = "BUY"
          /\ Upper(trades[s].Side) = "SELL"
          /\ trades[s].Time = trades[b].Time
          /\ trades[b].Symbol = trade_pairs[1].Symbol

IsExample ==
    /\ Len(trades) = 3
    /\ \E b, s1, s2 \in DOMAIN trades :
          /\ trades[b].Side = "BUY" /\ trades[b].Quantity = Shares(100)
          /\ trades[b].Price = 10 /\ trades[b].Time = 0
          /\ trades[s1].Side = "SELL" /\ trades[s1].Quantity = Shares(60)
          /\ trades[s1].Price = 12 /\ trades[s1].Time = 60
          /\ trades[s2].Side = "SELL" /\ trades[s2].Quantity = Shares(40)
          /\ trades[s2].Price = 11 /\ trades[s2].Time = 90
          /\ \A k \in DOMAIN trades :
                trades[k].Symbol = "A" /\ trades[k].Commission = 0

\* C6: [Buy 100@10 T0, Sell 60@12 T1, Sell 40@11 T2] matches into the pairs
\* (60, 10, 12, pnl 120) and (40, 10, 11, pnl 40) with no open position; in
\* general the pairs of one buy are consecutive, each later one sized from
\* what the earlier ones left of the buy.
C6_PartialFillExample ==
    /\ IsExample =>
          /\ Len(fifo_pairs) = 2
          /\ fifo_pairs[1].Quantity = Shares(60)
          /\ fifo_pairs[1].BuyPrice = 10
          /\ fifo_pairs[1].SellPrice = 12
          /\ fifo_pairs[1].PnL = Dollars(120)
          /\ fifo_pairs[2].Quantity = Shares(40)
          /\ fifo_pairs[2].BuyPrice = 10
          /\ fifo_pairs[2].SellPrice = 11
          /\ fifo_pairs[2].PnL = Dollars(40)
          /\ "A" \notin DOMAIN open_positions
    /\ \A i, j \in DOMAIN fifo_pairs :
          (i < j /\ fifo_pairs[i].BuyOrderID = fifo_pairs[j].BuyOrderID) =>
              /\ \A m \in i..j :
                    fifo_pairs[m].BuyOrderID = fifo_pairs[i].BuyOrderID
              /\ \E k \in DOMAIN trades :
                    /\ trades[k].OrderID = fifo_pairs[i].BuyOrderID
                    /\ fifo_pairs[j].Quantity
                          <= trades[k].Quantity
                               - SeqSum([m \in 1..(j - i) |->
                                            fifo_pairs[i + m - 1].Quantity])

C6_Witness == IsExample /\ Len(fifo_pairs) = 2

\* C7: every pair the session holds satisfies
\* PnL = (SellPrice * Quantity - SellCommission)
\*         - (BuyPrice * Quantity + BuyCommission).
C7_PnLIdentity ==
    \A i \in DOMAIN trade_pairs :
        LET p == trade_pairs[i]
        IN p.PnL = (p.SellPrice * p.Quantity - p.SellCommission)
                     - (p.BuyPrice * p.Quantity + p.BuyCommission)

\* a re-priced pair with a commission, cut from a larger sell
C7_Witness ==
    /\ strategy \in {"minute", "timeframe"}
    /\ \E i \in DOMAIN trade_pairs :
          /\ trade_pairs[i].BuyCommission > 0
          /\ \E k \in DOMAIN trades :
                /\ trades[k].OrderID = trade_pairs[i].SellOrderID
                /\ trades[k].Quantity > trade_pairs[i].Quantity

\* C8: the timeframe-based and the symbol-based strategy leave every field
\* of every pair as the matcher made it, Result excepted.
C8_RepricingIsolation ==
    strategy \in {"timeframe", "symbol"} =>
        /\ Len(trade_pairs) = Len(fifo_pairs)
        /\ \A i \in DOMAIN trade_pairs :
              trade_pairs[i] =
                  [fifo_pairs[i] EXCEPT !.Result = trade_pairs[i].Result]

\* the timeframe strategy reclassified a pair
C8_Witness ==
    /\ strategy = "timeframe"
    /\ \E i \in DOMAIN trade_pairs :
          trade_pairs[i].Result # fifo_pairs[i].Result

\* C9 (as the specification states it): under the minute-based strategy
\* each pair's BuyPrice and SellPrice are the volume-weighted averages of its
\* (symbol, buy minute) and (symbol, sell minute) groups.
C9_MinutePricingRewritesPrices ==
    strategy = "minute" =>
        \A i \in DOMAIN trade_pairs :
            LET p == trade_pairs[i]
                same_buy(q) ==
                    q.Symbol = p.Symbol
                      /\ truncate_to_minute(q.BuyTime)
                           = truncate_to_minute(p.BuyTime)
                same_sell(q) ==
                    q.Symbol = p.Symbol
                      /\ truncate_to_minute(q.SellTime)
                           = truncate_to_minute(p.SellTime)
            IN /\ p.BuyPrice
                    * group_sum(fifo_pairs, same_buy, LAMBDA q : q.Quantity)
                  = group_sum(fifo_pairs, same_buy,
                              LAMBDA q : q.BuyPrice * q.Quantity)
               /\ p.SellPrice
                    * group_sum(fifo_pairs, same_sell, LAMBDA q : q.Quantity)
                  = group_sum(fifo_pairs, same_sell,
                              LAMBDA q : q.SellPrice * q.Quantity)

\* C10 (as the specification states it): an order reported as PartialFilled
\* for 30 shares under o1 and then as Filled for 50 shares under the new id
\* o2 contributes 50 shares to the session's trades.
C10_PartialFillNotDoubleCounted ==
    (\E j \in TradesOf("o1"), k \in TradesOf("o2") :
        /\ j < k
        /\ trades[j].Status = "PartialFilled"
        /\ trades[k].Status = "Filled")
      => SeqSum([k \in DOMAIN trades |->
                   IF trades[k].OrderID \in {"o1", "o2"}
                   THEN trades[k].Quantity ELSE 0]) = Shares(50)

\* the quantity order_id was matched for in the pairs before pair i
MatchedBefore(i, order_id) ==
    SeqSum([m \in 1..(i - 1) |->
               IF order_id \in {fifo_pairs[m].BuyOrderID,
                                fifo_pairs[m].SellOrderID}
               THEN fifo_pairs[m].Quantity ELSE 0])

\* the executions of a side of the symbol of a pair
SideOf(pair, side) ==
    {k \in DOMAIN trades :
        trades[k].Symbol = pair.Symbol /\ Upper(trades[k].Side) = side}

\* C20: within a symbol the pairs come in ascending order of their buys;
\* when a pair is made every strictly earlier buy is used up, and so is
\* every sell strictly between the pair's buy and its sell; the sell of a
\* pair is strictly later than its buy, whatever the prices.
C20_FifoOrder ==
    /\ \A i, j \in DOMAIN fifo_pairs :
          (i < j /\ fifo_pairs[i].Symbol = fifo_pairs[j].Symbol)
              => fifo_pairs[i].BuyTime <= fifo_pairs[j].BuyTime
    /\ \A i \in DOMAIN fifo_pairs :
          /\ fifo_pairs[i].SellTime > fifo_pairs[i].BuyTime
          /\ \A k \in SideOf(fifo_pairs[i], "BUY") :
                trades[k].Time < fifo_pairs[i].BuyTime
                    => MatchedBefore(i, trades[k].OrderID) = trades[k].Quantity
          /\ \A k \in SideOf(fifo_pairs[i], "SELL") :
                (/\ trades[k].Time > fifo_pairs[i].BuyTime
                 /\ trades[k].Time < fifo_pairs[i].SellTime)
                    => MatchedBefore(i, trades[k].OrderID) = trades[k].Quantity

\* a buy was closed at a loss by the earliest later sell although a still
\* later sell of the symbol, left unused, has a higher price
C20_Witness ==
    \E i \in DOMAIN fifo_pairs :
        /\ fifo_pairs[i].PnL < 0
        /\ \E k \in SideOf(fifo_pairs[i], "SELL") :
              /\ trades[k].Time > fifo_pairs[i].SellTime
              /\ trades[k].Price > fifo_pairs[i].SellPrice
              /\ MatchedAgainst(trades[k].OrderID) = 0

\* the cumulative PnL of the first k pairs of the last pass, taken in order p
CumulativePnL(p, k) == SeqSum([m \in 1..k |-> metrics_pairs[p[m]].PnL])

\* C18: after a pass over a non-empty list, max_drawdown is the largest
\* fall of the cumulative PnL from an earlier (or the same) point to a later
\* one, the pairs taken in an ascending order of SellTime, so it is never
\* negative; when the PnL in SellTime order are +100, -40 and +60 dollars it
\* is 40 dollars.
C18_MaxDrawdown ==
    /\ metrics.max_drawdown >= 0
    /\ metrics_pairs # <<>> =>
          \E p \in sort_by_sell_time(metrics_pairs) :
              /\ \E i, j \in DOMAIN metrics_pairs :
                    /\ i <= j
                    /\ metrics.max_drawdown
                           = CumulativePnL(p, i) - CumulativePnL(p, j)
              /\ \A i, j \in DOMAIN metrics_pairs :
                    i <= j => metrics.max_drawdown
                                 >= CumulativePnL(p, i) - CumulativePnL(p, j)
    /\ \A p \in sort_by_sell_time(metrics_pairs) :
          [k \in DOMAIN metrics_pairs |-> metrics_pairs[p[k]].PnL]
                  = <<Dollars(100), 0 - Dollars(40), Dollars(60)>>
              => metrics.max_drawdown = Dollars(40)

\* the pass was given the pairs of the example with the latest sell first
C18_Witness ==
    /\ Len(metrics_pairs) = 3
    /\ [k \in 1..3 |-> metrics_pairs[k].PnL]
           = <<Dollars(60), Dollars(100), 0 - Dollars(40)>>
    /\ metrics_pairs[2].SellTime < metrics_pairs[3].SellTime
    /\ metrics_pairs[3].SellTime < metrics_pairs[1].SellTime
    /\ metrics.max_drawdown = Dollars(40)

\* the fields of the metrics
MetricFields == DOMAIN reset_metrics

\* C19: a pass over an empty list leaves every field at its zero default,
\* whatever the metrics were before; a pass over a list of one pair leaves
\* a Sharpe ratio of 0 and a Sortino ratio of the pair's return over 0.0001.
C19_DegenerateInputs ==
    /\ metrics_pairs = <<>> => metrics = reset_metrics
    /\ Len(metrics_pairs) = 1 =>
          /\ metrics.sharpe_ratio = ZeroRatio
          /\ metrics.sortino_ratio
                 = [mean_of |-> <<<<metrics_pairs[1].PnLPercent[1],
                                   metrics_pairs[1].PnLPercent[2] * 100>>>>,
                    over |-> "0.0001", deviation_of |-> <<>>]

\* a pass over an empty list came after one that had left every field but
\* the current loss streak away from zero
C19_Witness ==
    /\ metrics_pairs = <<>>
    /\ metrics = reset_metrics
    /\ nonzero_before = MetricFields \ {"consecutive_losses"}

\* a pass over one pair
C19_WitnessOnePair ==
    /\ Len(metrics_pairs) = 1
    /\ metrics.sortino_ratio.over = "0.0001"

\* C16: once a whole cycle has run after the settings were changed, the
\* session's trade_pairs are what the strategy now selected makes of the
\* matcher's pairs, whether or not that cycle found new executions.
C16_NextCycleUsesSettings ==
    settings_seen =>
        trade_pairs = cycle_trade_pairs(fifo_pairs, use_average_pricing,
                                        timeframe_minutes)

\* C11: at most one thread is inside the loop of monitor_logs.
C11_OneWorker == Cardinality(in_pipeline) <= 1

\* C12: when the last call was stop_monitoring and it has returned, the
\* running flag is False.
C12_StopStaysStopped ==
    (last_call = "stop" /\ controller = "idle") => ~running

\* C13: no state-clearing step of a reset has run while a thread was alive.
C13_ResetAfterWorkerStopped == ~cleared_while_alive

\* C14: when a reset of a running session has returned and the thread it
\* started has not yet begun, the execution list, the pair list, the seen
\* order ids and the open positions are empty and no cursor is past the
\* start of its file.
C14_FreshAfterReset ==
    (/\ last_call = "reset"
     /\ controller = "idle"
     /\ was_running
     /\ monitor_thread # NoThread
     /\ workers[monitor_thread].pc = "begin")
        => /\ trades = <<>>
           /\ trade_pairs = <<>>
           /\ processed_trade_ids = {}
           /\ \A f \in DOMAIN last_file_positions :
                 last_file_positions[f] = 0
           /\ DOMAIN open_positions = {}

\* C15: a thread leaves the loop only from the test of the flag and only
\* when the flag is False, and after the sleep that follows a caught
\* exception it is back at the test of the flag.
C15_CycleErrorsCaught ==
    [][\A w \in Workers :
          /\ (workers[w].pc # "done" /\ workers'[w].pc = "done")
                => (workers[w].pc = "check" /\ ~running)
          /\ (workers[w].pc = "error_sleep"
                 /\ workers'[w].pc # "error_sleep")
                => workers'[w].pc = "check"]_vars

\* a step of a pass has raised while the flag is set, and the thread is in
\* the handler's sleep with executions already ingested
C15_Witness ==
    \E w \in Workers :
        /\ workers[w].pc = "error_sleep"
        /\ running
        /\ trades # <<>>

\* C17: what the GUI holds is what it held after the last update_gui.
C17_GuiHoldsSnapshot == gui_trades = gui_trades_shown

\* the cursor of a file: last_file_positions.get(log_file, 0)
CursorOf(positions, f) == IF f \in DOMAIN positions THEN positions[f] ELSE 0

\* a read of f from its cursor ends in an exception (the outcome does not
\* depend on the ids seen so far)
ReadRaises(f) ==
    read_lines(
        pieces_read(file_lines[f], CursorOf(last_file_positions, f),
                    file_size[f]),
        1, [ids |-> {}, new_trades |-> <<>>, raised |-> FALSE]).raised

\* C21: the cursor of a file never decreases; when it changes, the file was
\* read in that step, the read ended without an exception, and the cursor
\* is the offset where the read ended; a read that raises leaves it.
C21_CursorMonotone ==
    [][\A f \in Files :
          LET old == CursorOf(last_file_positions, f)
              new == CursorOf(last_file_positions', f)
          IN /\ new >= old
             /\ new # old =>
                   /\ ~recently_modified[f]
                   /\ ~ReadRaises(f)
                   /\ new = file_size[f]
                   /\ file_size' = file_size]_vars

\* f1 holds only the line whose second item has an id that cannot be
\* hashed: a scan took o2 from it, raised, and left the cursor at 0, while
\* the read of f2 ended and moved its cursor
C21_Witness ==
    /\ file_lines["f1"] = <<5>>
    /\ \A i \in DOMAIN file_lines["f2"] : file_lines["f2"][i] = 1
    /\ "o2" \in processed_trade_ids
    /\ CursorOf(last_file_positions, "f1") = 0
    /\ CursorOf(last_file_positions, "f2") = LineLen

\* line i of f is a record written whole beyond the cursor of f, and no line
\* between the cursor and it ends the read with an exception
AppendedRecord(f, i) ==
    /\ i \in DOMAIN file_lines[f]
    /\ i * LineLen <= file_size[f]
    /\ CursorOf(last_file_positions, f) <= (i - 1) * LineLen
    /\ \A k \in 1..i :
          k * LineLen > CursorOf(last_file_positions, f) =>
              \A n \in DOMAIN LogLines[file_lines[f][k]].orders :
                  OrderItems[LogLines[file_lines[f][k]].orders[n]].hashable

Ingested(f, i) ==
    /\ i \in DOMAIN file_lines[f]
    /\ RecordIds(file_lines[f][i]) \subseteq processed_trade_ids

DeniedInStep == {g \in Files : scan_log'[g] = "denied"}

\* what a scan of the files other than f returns
ScanWithout(f, denied) ==
    extract_trades_from_logs(SelectSeq(mtime_order, LAMBDA g : g # f), denied)

\* the step is a scan on which f had no effect, and f is as eligible for
\* the next scan as it was
LeftAlone(f) ==
    /\ CursorOf(last_file_positions', f) = CursorOf(last_file_positions, f)
    /\ f \in DOMAIN last_file_positions' <=> f \in DOMAIN last_file_positions
    /\ processed_logs' = {}
    /\ processed_trade_ids' = ScanWithout(f, DeniedInStep).ids
    /\ trades' = trades \o ScanWithout(f, DeniedInStep).new_trades

\* C23: a scan leaves a file modified less than 0.5 s ago alone: its cursor
\* stays, and the seen ids and the executions are what the scan of the other
\* files gives; nothing marks the file, so the next scan looks at it again.
C23_RecentFileSkipped ==
    [][UNCHANGED fileVars =>
          \A f \in Files : recently_modified[f] => LeftAlone(f)]_vars

\* the last scan found f1, with a whole unread record, modified too recently
\* and read f2
C23_Witness ==
    /\ scan_log = [f \in Files |-> IF f = "f1" THEN "recent" ELSE "read"]
    /\ file_lines["f1"] = <<3>> /\ file_size["f1"] = LineLen
    /\ file_lines["f2"] = <<1>>
    /\ processed_trade_ids = {"o1"}
    /\ Len(trades) = 1
    /\ "f1" \notin DOMAIN last_file_positions
    /\ CursorOf(last_file_positions, "f2") = LineLen

\* C24: a scan that cannot open a file leaves it alone: its cursor stays,
\* it is not put into processed_logs, and the seen ids and the executions
\* are what the scan of the other files gives, so the other files of the
\* cycle are read and the next scan tries the file again.
C24_DeniedFileSkipped ==
    [][UNCHANGED fileVars =>
          \A f \in DeniedInStep :
              /\ LeftAlone(f)
              /\ f \notin processed_logs']_vars

\* the last scan could not open f1, the first file of the list, which
\* holds a whole unread record, and read f2
C24_Witness ==
    /\ scan_log = [f \in Files |-> IF f = "f1" THEN "denied" ELSE "read"]
    /\ mtime_order = <<"f1", "f2">>
    /\ file_lines["f1"] = <<3>> /\ file_size["f1"] = LineLen
    /\ file_lines["f2"] = <<1>>
    /\ processed_trade_ids = {"o1"}
    /\ Len(trades) = 1
    /\ "f1" \notin DOMAIN last_file_positions
    /\ CursorOf(last_file_positions, "f2") = LineLen

\* the lines of f a read from the cursor returns whole
WholeLinesRead(f) ==
    {i \in DOMAIN file_lines[f] :
        /\ i * LineLen <= file_size[f]
        /\ (i - 1) * LineLen >= CursorOf(last_file_positions, f)}

\* the payload of the line does not decode, or process_trade rejects one of
\* its items
CorruptLine(l) ==
    /\ LogLines[l].marker
    /\ \/ LogLines[l].payload = "bad"
       \/ \E n \in DOMAIN LogLines[l].orders :
             LET item == OrderItems[LogLines[l].orders[n]]
             IN item.hashable /\ has_fill(item) /\ process_trade(item) = <<>>

\* every id of every item of the line can be looked up in a set
HashableLine(l) ==
    \A n \in DOMAIN LogLines[l].orders :
        OrderItems[LogLines[l].orders[n]].hashable

C26_MaxStreakCoversCurrent ==
    metrics_pairs # <<>> =>
        /\ metrics.max_consecutive_profits >= metrics.consecutive_profits
        /\ metrics.max_consecutive_losses >= metrics.consecutive_losses

\* C27: an execution, once in the session's trades, stays as it was taken,
\* and no execution is added under an order id the trades already hold: a
\* later report of the same order id with a larger filled quantity is
\* dropped, and the quantity of the first report stays.
C27_FirstReportWins ==
    [][/\ Len(trades') >= Len(trades)
       /\ SubSeq(trades', 1, Len(trades)) = trades
       /\ \A k \in (Len(trades) + 1)..Len(trades') :
             \A j \in 1..(k - 1) : trades'[j].OrderID # trades'[k].OrderID]_vars

\* f1 holds the PartialFilled report of o1 for 30 shares and, after it, the
\* line whose first item reports o1 as Filled for 50; both were read to
\* the end, and the one execution of o1 is the partial fill of 30 shares
C27_Witness ==
    /\ file_lines["f1"] = <<1, 3>>
    /\ CursorOf(last_file_positions, "f1") = 2 * LineLen
    /\ "o3" \in processed_trade_ids
    /\ \E k \in DOMAIN trades :
          /\ TradesOf("o1") = {k}
          /\ trades[k].Status = "PartialFilled"
          /\ trades[k].Quantity = Shares(30)

\* the pairs of the last matching pass that carry the execution order_id
PairsOf(order_id) ==
    {i \in DOMAIN fifo_pairs :
        order_id \in {fifo_pairs[i].BuyOrderID, fifo_pairs[i].SellOrderID}}

\* C28: every pair the matcher emits carries the whole Commission of its
\* buy and of its sell, however small the matched part, and its PnL charges
\* both: summed over the pairs, an execution's commission is charged once
\* for every pair it is part of.
C28_CommissionPerPair ==
    /\ \A i \in DOMAIN fifo_pairs :
          LET pair == fifo_pairs[i]
          IN /\ \E k \in DOMAIN trades :
                   /\ trades[k].OrderID = pair.BuyOrderID
                   /\ pair.BuyCommission = trades[k].Commission
             /\ \E k \in DOMAIN trades :
                   /\ trades[k].OrderID = pair.SellOrderID
                   /\ pair.SellCommission = trades[k].Commission
             /\ pair.PnL = pair.Quantity * (pair.SellPrice - pair.BuyPrice)
                              - pair.BuyCommission - pair.SellCommission
    /\ SeqSum([i \in DOMAIN fifo_pairs |-> fifo_pairs[i].PnL])
          = SeqSum([i \in DOMAIN fifo_pairs |->
                       fifo_pairs[i].Quantity
                           * (fifo_pairs[i].SellPrice - fifo_pairs[i].BuyPrice)])
            - SeqSum([k \in DOMAIN trades |->
                         Cardinality(PairsOf(trades[k].OrderID))
                             * trades[k].Commission])

\* a buy with a commission of one dollar was matched in two parts, and
\* both pairs carry the dollar
C28_Witness ==
    \E k \in DOMAIN trades :
        /\ trades[k].Commission = Dollars(1)
        /\ Cardinality(PairsOf(trades[k].OrderID)) = 2
        /\ \A i \in PairsOf(trades[k].OrderID) :
              /\ fifo_pairs[i].BuyCommission = Dollars(1)
              /\ fifo_pairs[i].Quantity < trades[k].Quantity

\* the executions of the session taken from items without an id
WithoutId == {k \in DOMAIN trades : trades[k].OrderID = ""}

\* C29: the items without an 'id' share the key '' in processed_trade_ids,
\* so the session holds at most one execution taken from such an item; and
\* an id is in the set exactly when an execution of that id was accepted,
\* so an item process_trade rejected does not keep a later report of its id
\* out.
C29_EmptyIdKey ==
    /\ Cardinality(WithoutId) <= 1
    /\ processed_trade_ids = {trades[k].OrderID : k \in DOMAIN trades}

\* f1 holds the buy without an id and then the line with a rejected item of
\* o3, the sell without an id and a valid item of o3; both lines were read
\* to the end: the buy is the one execution without an id, the sell was
\* dropped, and o3 was accepted
C29_Witness ==
    /\ file_lines["f1"] = <<8, 9>>
    /\ CursorOf(last_file_positions, "f1") = 2 * LineLen
    /\ processed_trade_ids = {"", "o3"}
    /\ Len(trades) = 2
    /\ \E k \in WithoutId : trades[k].Side = "BUY"

StreakFields ==
    {"consecutive_profits", "consecutive_losses", "max_consecutive_profits",
     "max_consecutive_losses"}

\* the pairs of the last pass with a PnL for which test holds
CountPnL(test(_)) ==
    Cardinality({i \in DOMAIN metrics_pairs : test(metrics_pairs[i].PnL)})

\* what the pass gives for the same list, taken in order sorted, when no
\* strategy is selected
WithoutStrategy(sorted) ==
    calculate_advanced_metrics(metrics_pairs, FALSE, 1, sorted)

\* C30: the counts follow the sign of PnL: profit_trades and losing_trades
\* count the pairs with PnL > 0 and PnL < 0, so together they fall short of
\* total_trades by the pairs with PnL = 0; and whatever strategy the pass
\* applied, every metric but the four streak values is what the pass gives
\* without a strategy.
C30_CountsFollowPnL ==
    metrics_pairs # <<>> =>
        /\ metrics.total_trades = Len(metrics_pairs)
        /\ metrics.profit_trades = CountPnL(LAMBDA x : x > 0)
        /\ metrics.losing_trades = CountPnL(LAMBDA x : x < 0)
        /\ metrics.profit_trades + metrics.losing_trades
              = metrics.total_trades - CountPnL(LAMBDA x : x = 0)
        /\ \E sorted \in sort_by_sell_time(metrics_pairs) :
              \A field \in MetricFields \ StreakFields :
                  metrics[field] = WithoutStrategy(sorted)[field]

\* the last pass was given a pair with PnL = 0 and applied a strategy that
\* relabelled the results: its streak values are not those of the pass
\* without a strategy, in whatever order the pairs are taken
C30_Witness ==
    /\ CountPnL(LAMBDA x : x = 0) = 1
    /\ metrics.profit_trades + metrics.losing_trades = metrics.total_trades - 1
    /\ metrics_pairs # <<>>
    /\ \A sorted \in sort_by_sell_time(metrics_pairs) :
          \E field \in StreakFields :
              metrics[field] # WithoutStrategy(sorted)[field]

====
